---------------------------- MODULE Spec2Model ----------------------------
(***************************************************************************)
(* Model of the hybrid retrieval orchestrator of omniretrieve              *)
(* (hybrid/hybrid.go): one Retrieve call of a hybrid.Retriever, under the  *)
(* three policies, with the vector retriever, the graph retriever and the  *)
(* reranker as external collaborators whose outcomes are chosen            *)
(* nondeterministically when they return.                                  *)
(* A second specification, SpecGraph, covers the in-memory knowledge      *)
(* graph (memory/graph.go) and the graph retriever (graph package).        *)
(*                                                                         *)
(* Scores and weights are float64 in the source.  Here a retriever's score *)
(* and a weight are integers in tenths (0.8 is 8, 0.6 is 6), so a weighted *)
(* score is an integer in hundredths (0.8 * 0.6 = 0.48 is 48).             *)
(***************************************************************************)
EXTENDS Integers, Sequences, FiniteSets, TLC

\* ------------------------------------------------------------------ bounds

\* Longest item list a retriever returns.
MaxItems == 2
\* Largest TopK of the query (the smallest is -1).
MaxTopK == 1

\* ------------------------------------------------------------- data domain

PolicyParallel == "parallel"
PolicyVectorThenGraph == "vector_then_graph"
PolicyGraphThenVector == "graph_then_vector"

ModeVector == "vector"
ModeGraph == "graph"
ModeHybrid == "hybrid"

\* error values; NoErr is Go's nil error
NoErr == "nil"
ErrVector == "vector retriever failed"
ErrGraph == "graph retriever failed"
ErrRerank == "reranker failed"

\* identifiers and raw scores (tenths) of the items the backends return
IDs == {"x", "y"}
VectorScores == {5, 8}
GraphScores == {6}

\* Provenance.GraphPath of an item the graph backend returns: a path from
\* the entity hint, or empty for an item that is itself a start node.
GraphPathOf(id) == IF id = "x" THEN <<"g1", "x">> ELSE <<>>

VectorItems ==
    {[ID |-> i, Score |-> s,
      Provenance |-> [Mode |-> ModeVector, GraphPath |-> <<>>]] :
        i \in IDs, s \in VectorScores}

GraphItems ==
    {[ID |-> i, Score |-> s,
      Provenance |-> [Mode |-> ModeGraph, GraphPath |-> GraphPathOf(i)]] :
        i \in IDs, s \in GraphScores}

SeqsUpTo(S, n) == UNION {[1..k -> S] : k \in 0..n}

\* the result struct of retrieveParallel; also what a Retriever call yields
EmptyResult == [items |-> <<>>, count |-> 0, err |-> NoErr]

\* What a vector (graph) Retriever.Retrieve call can return: an error, or a
\* Result with an item list and its Metadata.TotalCandidates (the backend
\* reports at least as many candidates as it returns items).
RetrieverOutcomes(items, err) ==
    {[items |-> <<>>, count |-> 0, err |-> err]} \cup
    {[items |-> l, count |-> Len(l) + 1, err |-> NoErr] :
        l \in SeqsUpTo(items, MaxItems)}

\* the caller's entity hint
CallerHint == [ID |-> "g1", Type |-> "concept", Name |-> "seed", Confidence |-> 9]

Queries ==
    {[Text |-> "machine learning", Entities |-> e, MaxDepth |-> 2, TopK |-> k] :
        e \in {<<CallerHint>>}, k \in (-1)..MaxTopK}

\* the RetrieverConfig values handed to NewRetriever; Vector, Graph,
\* Reranker and Observer are TRUE when the field is non-nil
RawConfigs ==
    {[Vector |-> v, Graph |-> g, Policy |-> p, Weights |-> w,
      Reranker |-> r, DedupByID |-> d, Observer |-> o] :
        v \in BOOLEAN, g \in BOOLEAN,
        p \in {"", PolicyParallel, PolicyVectorThenGraph, PolicyGraphThenVector},
        w \in {[Vector |-> 0, Graph |-> 0], [Vector |-> 6, Graph |-> 4]},
        r \in BOOLEAN, d \in BOOLEAN, o \in BOOLEAN}

\* The configurations with an observer set. Retrieve reads
\* r.config.Observer in one place only, after a Rerank that succeeded;
\* SpecRerank below runs with and without an observer.
ObservedConfigs == {c \in RawConfigs : c.Observer}

DefaultWeights == [Vector |-> 6, Graph |-> 4]

NewRetriever(cfg) ==
    LET c1 == IF cfg.Policy = "" THEN [cfg EXCEPT !.Policy = PolicyParallel] ELSE cfg
    IN  IF c1.Weights.Vector = 0 /\ c1.Weights.Graph = 0
        THEN [c1 EXCEPT !.Weights = DefaultWeights]
        ELSE c1

\* ------------------------------------------------------------------- state

VARIABLES
    config,           \* Retriever.config, after NewRetriever
    q,                \* the Query of this Retrieve call
    pc,               \* where the goroutine running Retrieve stands
    vpc, gpc,         \* where the two goroutines of retrieveParallel stand
    vectorCh, graphCh,\* the two buffered channels (capacity 1)
    vectorRes, graphRes, \* what the vector / graph retriever handed back
    modesUsed, totalCandidates,
    merged,           \* the slice mergeResults returned
    deduped,          \* items after the optional deduplicate
    sorted,           \* items after sort.Slice
    items,            \* items after the top-k cut (and after the reranker)
    ret,              \* what Retrieve returned: [result, err]
    received,         \* the queries each retriever was invoked with
    reranker,         \* what the Reranker was invoked with and handed back
    log               \* the events of this call, in order

\* ============================================================ graph side
\* The in-memory knowledge graph (memory/graph.go) and the graph retriever
\* (graph package).  An edge weight and MinScore are integers in tenths;
\* a path score is the exact fraction num / 100^hops, so 0.9 * 0.8 = 0.72
\* is [num |-> 72, hops |-> 1].

\* Largest Depth option of a traversal.
MaxDepth == 2
\* Largest MaxNodes option of a traversal.
MaxNodesLimit == 3

\* NewRetriever's defaults, and the constants of computePathScore (tenths)
DefaultDepth == 2
DefaultMaxNodes == 20
DecayFactor == 8
DefaultEdgeWeight == 5

NodeIDs == {"a", "b", "c"}

NodeTypeOf(id) == IF id = "b" THEN "document" ELSE "concept"

GraphNode(id) == [ID |-> id, Type |-> NodeTypeOf(id)]

GraphEdge(from, to, type, weight) ==
    [From |-> from, To |-> to, Type |-> type, Weight |-> weight]

\* The edges a graph is stocked from, in the order AddEdge stores them:
\* two edges of different type and weight from a to b (one of weight 0),
\* a short and a long way from a to c, and a way back from c to a.
EdgeStock ==
    << GraphEdge("a", "b", "relates_to", 9),
       GraphEdge("a", "b", "part_of", 0),
       GraphEdge("a", "c", "part_of", 9),
       GraphEdge("b", "c", "relates_to", 5),
       GraphEdge("c", "a", "relates_to", 9) >>

\* the sets of nodes a graph holds: all, b missing (its edges dangle), none
NodeSets == {NodeIDs, {"a", "c"}, {}}

\* the stocked edges with these indexes that leave `from`, in stock order
EdgesFrom(keep, from) ==
    SelectSeq([i \in DOMAIN EdgeStock |->
                  IF i \in keep THEN EdgeStock[i]
                  ELSE GraphEdge("", "", "", 0)],
              LAMBDA e : e.From = from)

\* the KnowledgeGraph states: nodes is the map id -> Node, edges the map
\* From id -> edge list (an id with no list has the nil list)
KnowledgeGraphs ==
    {[nodes |-> [id \in ns |-> GraphNode(id)],
      edges |-> [id \in NodeIDs |-> EdgesFrom(keep, id)]] :
        ns \in NodeSets, keep \in SUBSET (DOMAIN EdgeStock)}

\* NewKnowledgeGraph
EmptyGraph ==
    [nodes |-> [id \in {} |-> GraphNode(id)], edges |-> [id \in NodeIDs |-> <<>>]]

TraversalOptionsSet ==
    {[Depth |-> d, EdgeTypes |-> et, NodeTypes |-> nt, MaxNodes |-> mn,
      MinWeight |-> mw] :
        d \in 0..MaxDepth,
        et \in {<<>>, <<"relates_to">>},
        nt \in {<<>>, <<"concept">>},
        mn \in 0..MaxNodesLimit,
        mw \in {0, 6}}

\* the start lists handed to Traverse
StartLists == {<<>>, <<"a">>, <<"b">>, <<"a", "b">>, <<"b", "a">>}

Hint(id) == [ID |-> id, Type |-> "", Name |-> "", Confidence |-> 0]

\* the queries handed to the graph retriever (Filters left empty)
GraphQueries ==
    {[Entities |-> e, MaxDepth |-> d, TopK |-> k, MinScore |-> m] :
        e \in {<<>>, <<Hint("a")>>, <<Hint(""), Hint("b")>>,
               <<Hint("a"), Hint("b")>>},
        d \in 0..MaxDepth, k \in 0..MaxNodesLimit, m \in {0, 6}}

\* graph.NewRetriever: zero defaults are replaced
NewGraphRetriever(cfg) ==
    [cfg EXCEPT
        !.DefaultDepth = IF @ = 0 THEN DefaultDepth ELSE @,
        !.DefaultMaxNodes = IF @ = 0 THEN DefaultMaxNodes ELSE @]

\* the graph retriever's config: no edge type filter, defaults left to
\* NewRetriever
GraphRetrieverConfig ==
    NewGraphRetriever([DefaultDepth |-> 0, DefaultMaxNodes |-> 0,
                       EdgeTypes |-> <<>>])

VARIABLES
    kg,               \* the KnowledgeGraph: [nodes, edges]
    gop,              \* the call made on the graph side, "none" before it
    traverseArgs,     \* the arguments of each Traverse call made
    traversal,        \* the TraversalResult of each Traverse call made
    dequeued,         \* the queue items the last Traverse took, in order
    graphQuery,       \* the query of the graph retriever's Retrieve call
    graphResult,      \* the Result the graph retriever returned
    gerr              \* the error returned by the call made on the graph side

gvars == <<kg, gop, traverseArgs, traversal, dequeued, graphQuery, graphResult,
           gerr>>

\* the graph side while only the hybrid orchestrator is looked at
GraphUnused ==
    /\ kg = EmptyGraph
    /\ gop = "unused"
    /\ traverseArgs = <<>>
    /\ traversal = <<>>
    /\ dequeued = <<>>
    /\ graphQuery = <<>>
    /\ graphResult = <<>>
    /\ gerr = <<>>

\* ---------------------------------------------------------- observe: state

\* Most calls made on the Observer in one behaviour.
MaxEvents == 4
\* Most exporters an Observer is configured with.
MaxExporters == 2

VARIABLES
    exporters,        \* Observer.exporters: the Name() of each, in order
    logger,           \* TRUE when Observer.logger is non-nil
    spans,            \* Observer.spans: span ID -> Span
    traces,           \* Observer.traces: trace ID -> span IDs
    clock,            \* the last reading of time.Now()
    ctxs,             \* the contexts OnRetrieveStart has returned
    olog,             \* the calls made on the Observer that got past its
                      \* `sc == nil` check, in order
    exports,          \* the Export calls made on the exporters, in order
    logged            \* the records written to the logger

ovars == <<exporters, logger, spans, traces, clock, ctxs, olog, exports, logged>>

\* the observer while it is not looked at
ObserverUnused ==
    /\ exporters = <<>>
    /\ logger = FALSE
    /\ spans = <<>>
    /\ traces = <<>>
    /\ clock = 0
    /\ ctxs = {}
    /\ olog = <<>>
    /\ exports = <<>>
    /\ logged = <<>>

\* --------------------------------------------------------- pgvector: state

\* Most nodes handed to one InsertBatch call.
MaxBatch == 2

VARIABLES
    table,            \* the ids of the rows committed to the index's table
    inserted,            \* the nodes argument of the InsertBatch call
    bpc,              \* the position of the InsertBatch call
    tx,               \* the state of the transaction BeginTx returned
    stmt,             \* the state of the prepared COPY statement
    copied,           \* the ids of the rows sent on the statement so far
    berr,             \* the function-scope `err` the deferred rollback tests
    bret              \* the error InsertBatch returns

bvars == <<table, inserted, bpc, tx, stmt, copied, berr, bret>>

\* the pgvector index while it is not looked at
BatchUnused ==
    /\ table = {}
    /\ inserted = <<>>
    /\ bpc = "unused"
    /\ tx = "none"
    /\ stmt = "none"
    /\ copied = <<>>
    /\ berr = NoErr
    /\ bret = NoErr

\* ------------------------------------------- KnowledgeGraph: concurrent use

\* Most mutations made on the KnowledgeGraph in one behaviour.
MaxMutations == 2

\* the goroutines that call Traverse
Traversers == {1, 2}

VARIABLES
    mu,               \* KnowledgeGraph.mu: readers holding it, writer holding it
    deleting,         \* the id of the DeleteNode call that holds the lock
    graphs,           \* the graph as each completed mutation left it, in order
    tpc,              \* the position of each goroutine's Traverse call
    tcall,            \* each Traverse call: its arguments, and the number of
                      \* completed mutations as it took and released the lock
    tlocals,          \* the locals of each Traverse call
    tresult           \* the TraversalResult each Traverse call returned

cvars == <<mu, deleting, graphs, tpc, tcall, tlocals, tresult>>

\* the lock and the callers while the graph is used by one caller at a time
ConcurrencyUnused ==
    /\ mu = [readers |-> 0, writer |-> FALSE]
    /\ deleting = ""
    /\ graphs = <<>>
    /\ tpc = <<>>
    /\ tcall = <<>>
    /\ tlocals = <<>>
    /\ tresult = <<>>

vars == <<config, q, pc, vpc, gpc, vectorCh, graphCh, vectorRes, graphRes,
          modesUsed, totalCandidates, merged, deduped, sorted, items, reranker, ret,
          received, log, gvars, ovars, bvars, cvars>>

\* ----------------------------------------------------------- mergeResults

EmptyMap == [i \in {} |-> 0]

Put(m, k, v) == [i \in (DOMAIN m) \cup {k} |-> IF i = k THEN v ELSE m[i]]

\* one iteration of the loop over vectorItems
AddVectorItem(m, item) ==
    LET weightedScore == item.Score * config.Weights.Vector
    IN  IF item.ID \in DOMAIN m
        THEN [m EXCEPT ![item.ID].Score = @ + weightedScore]
        ELSE Put(m, item.ID, [item EXCEPT !.Score = weightedScore])

\* AddGraphItem with the collision branch overwriting the score
AddGraphItemReplacing(m, item) ==
    LET weightedScore == item.Score * config.Weights.Graph
    IN  IF item.ID \in DOMAIN m
        THEN [m EXCEPT ![item.ID].Score = weightedScore]
        ELSE Put(m, item.ID, [item EXCEPT !.Score = weightedScore])

\* one iteration of the loop over graphItems
AddGraphItem(m, item) ==
    LET weightedScore == item.Score * config.Weights.Graph
    IN  IF item.ID \in DOMAIN m
        THEN IF Len(item.Provenance.GraphPath) > 0
             THEN [m EXCEPT ![item.ID].Score = @ + weightedScore,
                            ![item.ID].Provenance.GraphPath = item.Provenance.GraphPath]
             ELSE [m EXCEPT ![item.ID].Score = @ + weightedScore]
        ELSE Put(m, item.ID, [item EXCEPT !.Score = weightedScore])

RECURSIVE AddVectorItems(_, _)
AddVectorItems(m, vs) ==
    IF vs = <<>> THEN m ELSE AddVectorItems(AddVectorItem(m, Head(vs)), Tail(vs))

RECURSIVE AddGraphItems(_, _)
AddGraphItems(m, gs) ==
    IF gs = <<>> THEN m ELSE AddGraphItems(AddGraphItem(m, Head(gs)), Tail(gs))

\* the map `merged` once both loops have run
MergedMap(vectorItems, graphItems) ==
    AddGraphItems(AddVectorItems(EmptyMap, vectorItems), graphItems)

\* the orders in which a Go map of these keys can be iterated
KeyOrders(S) ==
    {o \in [1..Cardinality(S) -> S] : \A i, j \in DOMAIN o : i # j => o[i] # o[j]}

\* mergeResults leaving Provenance.Mode as the retriever set it
mergeResultsKeepingMode(vectorItems, graphItems) ==
    LET m == MergedMap(vectorItems, graphItems)
    IN  {[i \in DOMAIN o |-> m[o[i]]] : o \in KeyOrders(DOMAIN m)}

\* mergeResults appending the weighted items of both lists, without the map
mergeResultsAppending(vectorItems, graphItems) ==
    LET n == Len(vectorItems)
    IN  {[i \in 1..(n + Len(graphItems)) |->
            IF i <= n
            THEN [vectorItems[i] EXCEPT
                     !.Score = @ * config.Weights.Vector,
                     !.Provenance.Mode = ModeHybrid]
            ELSE [graphItems[i - n] EXCEPT
                     !.Score = @ * config.Weights.Graph,
                     !.Provenance.Mode = ModeHybrid]]}

\* The slices mergeResults can return: the values of the map, each with
\* Provenance.Mode overwritten, in any iteration order.
mergeResults(vectorItems, graphItems) ==
    LET m == MergedMap(vectorItems, graphItems)
    IN  {[i \in DOMAIN o |-> [m[o[i]] EXCEPT !.Provenance.Mode = ModeHybrid]] :
            o \in KeyOrders(DOMAIN m)}

\* ------------------------------------------------------------- deduplicate

\* index in result of the item with this ID (seen[item.ID]), 0 when unseen
SeenIndex(result, id) ==
    IF \E i \in DOMAIN result : result[i].ID = id
    THEN CHOOSE i \in DOMAIN result : result[i].ID = id
    ELSE 0

RECURSIVE DedupLoop(_, _)
DedupLoop(result, rest) ==
    IF rest = <<>> THEN result
    ELSE LET item == Head(rest)
             idx == SeenIndex(result, item.ID)
         IN  IF idx # 0
             THEN IF item.Score > result[idx].Score
                  THEN DedupLoop([result EXCEPT ![idx] = item], Tail(rest))
                  ELSE DedupLoop(result, Tail(rest))
             ELSE DedupLoop(Append(result, item), Tail(rest))

deduplicate(its) == DedupLoop(<<>>, its)

\* --------------------------------------------------------- sort and top-k

Arrangements(s) ==
    {[i \in DOMAIN s |-> s[p[i]]] : p \in KeyOrders(DOMAIN s)}

\* SortByScore with the comparison turned around
SortByScoreAscending(its) ==
    {s \in Arrangements(its) :
        \A i, j \in DOMAIN s : i < j => s[i].Score <= s[j].Score}

\* sort.Slice with less = (Score[i] > Score[j]): not stable, so any
\* arrangement of the items in which the scores never increase
SortByScore(its) ==
    {s \in Arrangements(its) :
        \A i, j \in DOMAIN s : i < j => s[i].Score >= s[j].Score}

\* TopKCut keeping the last TopK items instead of the first
TopKCutKeepingTail(its) ==
    IF q.TopK > 0 /\ Len(its) > q.TopK
    THEN SubSeq(its, Len(its) - q.TopK + 1, Len(its))
    ELSE its

\* `if q.TopK > 0 && len(items) > q.TopK { items = items[:q.TopK] }`
TopKCut(its) ==
    IF q.TopK > 0 /\ Len(its) > q.TopK THEN SubSeq(its, 1, q.TopK) ELSE its

\* ---------------------------------------------------------------- helpers

\* the *retrieve.Result built at the end of Retrieve (LatencyMS is wall
\* clock time and is left out)
ResultOf(its, modes, total) ==
    [Items |-> its, Query |-> q,
     Metadata |-> [TotalCandidates |-> total, ModesUsed |-> modes]]

\* Fail handing back a degraded Result next to the error
FailWithPartialResult(evs, e) ==
    /\ pc' = "done"
    /\ ret' = [result |-> <<ResultOf(vectorRes.items, <<ModeHybrid>>, 0)>>,
               err |-> e]
    /\ modesUsed' = <<>>
    /\ totalCandidates' = 0
    /\ log' = log \o evs
    /\ UNCHANGED <<merged, deduped, sorted, items, reranker>>

\* `return nil, err` of Retrieve, reached from `return nil, nil, 0, err`
Fail(evs, e) ==
    /\ pc' = "done"
    /\ ret' = [result |-> <<>>, err |-> e]
    /\ modesUsed' = <<>>
    /\ totalCandidates' = 0
    /\ log' = log \o evs
    /\ UNCHANGED <<merged, deduped, sorted, items, reranker>>

\* mergeResults at the end of a retrieveXxx, then the rest of Retrieve up
\* to the reranker call (or, with no reranker, to the return)
Complete(evs, vectorItems, graphItems, modes, total) ==
    \E m \in mergeResults(vectorItems, graphItems) :
        LET d == IF config.DedupByID THEN deduplicate(m) ELSE m
        IN  \E s \in SortByScore(d) :
                LET t == TopKCut(s)
                    post == <<"merge">>
                            \o (IF config.DedupByID THEN <<"dedup">> ELSE <<>>)
                            \o <<"sort">>
                            \o (IF t # s THEN <<"topk">> ELSE <<>>)
                IN  /\ merged' = m
                    /\ deduped' = d
                    /\ sorted' = s
                    /\ items' = t
                    /\ modesUsed' = modes
                    /\ totalCandidates' = total
                    /\ IF config.Reranker
                       THEN /\ pc' = "rerank"
                            /\ log' = log \o evs \o post \o <<"rerank.call">>
                            /\ reranker' = [reranker EXCEPT !.calls =
                                                Append(@, [q |-> q, items |-> t])]
                            /\ UNCHANGED ret
                       ELSE /\ pc' = "done"
                            /\ log' = log \o evs \o post
                            /\ ret' = [result |-> <<ResultOf(t, modes, total)>>,
                                       err |-> NoErr]
                            /\ UNCHANGED reranker

\* r.config.Vector.Retrieve(ctx, query) is entered
CallVector(query) == [received EXCEPT !.vector = Append(@, query)]

\* r.config.Graph.Retrieve(ctx, query) is entered
CallGraph(query) == [received EXCEPT !.graph = Append(@, query)]

\* the event a returning retriever call leaves in the log
Outcome(who, out) == IF out.err # NoErr THEN who \o ".err" ELSE who \o ".ok"

\* ------------------------------------------------------------------- Init

InitFrom(cfgs) ==
    /\ config \in {NewRetriever(c) : c \in cfgs}
    /\ q \in Queries
    /\ pc = "idle"
    /\ vpc = "none"
    /\ gpc = "none"
    /\ vectorCh = <<>>
    /\ graphCh = <<>>
    /\ vectorRes = EmptyResult
    /\ graphRes = EmptyResult
    /\ modesUsed = <<>>
    /\ totalCandidates = 0
    /\ merged = <<>>
    /\ deduped = <<>>
    /\ sorted = <<>>
    /\ items = <<>>
    /\ ret = [result |-> <<>>, err |-> NoErr]
    /\ received = [vector |-> <<>>, graph |-> <<>>]
    /\ reranker = [calls |-> <<>>, returns |-> <<>>, reported |-> <<>>]
    /\ log = <<>>
    /\ GraphUnused
    /\ ObserverUnused
    /\ BatchUnused
    /\ ConcurrencyUnused

\* a Retriever built by NewRetriever, before Retrieve is entered
Init == InitFrom(ObservedConfigs)

\* ------------------------------------------------- VectorThenGraph helpers

\* the entities built from the vector items: EntityHint{ID: item.ID,
\* Name: item.ID}, Type and Confidence left at their zero values
EntityHints(vectorItems) ==
    [i \in DOMAIN vectorItems |->
        [ID |-> vectorItems[i].ID, Type |-> "", Name |-> vectorItems[i].ID,
         Confidence |-> 0]]

\* GraphQuery with the hints appended to the caller's
GraphQueryAppending(vectorItems) ==
    [q EXCEPT !.Entities = @ \o EntityHints(vectorItems)]

\* graphQuery := q; graphQuery.Entities = entities
GraphQuery(vectorItems) == [q EXCEPT !.Entities = EntityHints(vectorItems)]

\* ExpandsViaGraph without the len(vectorItems) > 0 test
ExpandsViaGraphAlways(vectorItems) == config.Graph

\* whether retrieveVectorThenGraph goes on to the graph retriever
ExpandsViaGraph(vectorItems) == config.Graph /\ Len(vectorItems) > 0

\* retrieveVectorThenGraph from "Extract entity hints" on
VTGAfterVector(evs, vres, modes, total) ==
    IF ExpandsViaGraph(vres.items)
    THEN /\ received' = CallGraph(GraphQuery(vres.items))
         /\ pc' = "vtg_graph"
         /\ log' = log \o evs \o <<"graph.call">>
         /\ modesUsed' = modes
         /\ totalCandidates' = total
         /\ UNCHANGED <<merged, deduped, sorted, items, reranker, ret>>
    ELSE /\ Complete(evs, vres.items, <<>>, modes, total)
         /\ UNCHANGED received

\* GroundingQuery threading the graph items into the query as hints
GroundingQueryWithHints(graphItems) ==
    [q EXCEPT !.Entities = EntityHints(graphItems)]

\* the query retrieveGraphThenVector hands to the vector retriever
GroundingQuery(graphItems) == q

\* retrieveGraphThenVector from "Use graph results to inform vector search" on
GTVAfterGraph(evs, gres, modes, total) ==
    IF config.Vector
    THEN /\ received' = CallVector(GroundingQuery(gres.items))
         /\ pc' = "gtv_vector"
         /\ log' = log \o evs \o <<"vector.call">>
         /\ modesUsed' = modes
         /\ totalCandidates' = total
         /\ UNCHANGED <<merged, deduped, sorted, items, reranker, ret>>
    ELSE /\ Complete(evs, <<>>, gres.items, modes, total)
         /\ UNCHANGED received

\* ---------------------------------------------------------------- actions

\* Retrieve is entered: the policy is selected, and the call runs up to
\* its first suspension point
Retrieve ==
    /\ pc = "idle"
    /\ CASE config.Policy = PolicyVectorThenGraph ->
              /\ UNCHANGED <<vpc, gpc>>
              /\ IF config.Vector
                 THEN /\ received' = CallVector(q)
                      /\ pc' = "vtg_vector"
                      /\ log' = log \o <<"vector.call">>
                      /\ modesUsed' = <<ModeHybrid>>
                      /\ UNCHANGED <<totalCandidates, merged, deduped, sorted,
                                     items, reranker, ret>>
                 ELSE VTGAfterVector(<<>>, EmptyResult, <<ModeHybrid>>, 0)
         [] config.Policy = PolicyGraphThenVector ->
              /\ UNCHANGED <<vpc, gpc>>
              /\ IF config.Graph
                 THEN /\ received' = CallGraph(q)
                      /\ pc' = "gtv_graph"
                      /\ log' = log \o <<"graph.call">>
                      /\ modesUsed' = <<ModeHybrid>>
                      /\ UNCHANGED <<totalCandidates, merged, deduped, sorted,
                                     items, reranker, ret>>
                 ELSE GTVAfterGraph(<<>>, EmptyResult, <<ModeHybrid>>, 0)
         [] OTHER ->
              \* retrieveParallel: both goroutines are started
              /\ vpc' = "started"
              /\ gpc' = "started"
              /\ pc' = "recv_vector"
              /\ UNCHANGED <<received, log, modesUsed, totalCandidates, merged,
                             deduped, sorted, items, reranker, ret>>
    /\ UNCHANGED <<cvars, bvars, ovars, gvars, config, q, vectorCh, graphCh, vectorRes, graphRes>>

\* the vector goroutine runs up to its call, or sends result{} when no
\* vector retriever is configured
VectorWorkerStart ==
    /\ vpc = "started"
    /\ IF config.Vector
       THEN /\ received' = CallVector(q)
            /\ vpc' = "calling"
            /\ log' = log \o <<"vector.call">>
            /\ UNCHANGED vectorCh
       ELSE /\ vectorCh' = Append(vectorCh, EmptyResult)
            /\ vpc' = "done"
            /\ log' = log \o <<"vector.absent">>
            /\ UNCHANGED received
    /\ UNCHANGED <<cvars, bvars, ovars, gvars, config, q, pc, gpc, graphCh, vectorRes, graphRes, modesUsed,
                   totalCandidates, merged, deduped, sorted, items, reranker, ret>>

\* VectorWorkerReturn calling the retriever a second time after an error
VectorWorkerReturnRetrying ==
    /\ vpc = "calling"
    /\ Len(vectorCh) < 1
    /\ \E out \in RetrieverOutcomes(VectorItems, ErrVector) :
          IF out.err # NoErr /\ Len(received.vector) < 2
          THEN /\ received' = CallVector(q)
               /\ log' = log \o <<Outcome("vector", out), "vector.call">>
               /\ UNCHANGED <<vectorCh, vpc>>
          ELSE /\ vectorCh' = Append(vectorCh, out)
               /\ log' = log \o <<Outcome("vector", out)>>
               /\ vpc' = "done"
               /\ UNCHANGED received
    /\ UNCHANGED <<cvars, bvars, ovars, gvars, config, q, pc, gpc, graphCh, vectorRes, graphRes, modesUsed,
                   totalCandidates, merged, deduped, sorted, items, reranker, ret>>

\* the vector retriever returns to its goroutine, which sends the outcome
VectorWorkerReturn ==
    /\ vpc = "calling"
    /\ Len(vectorCh) < 1
    /\ \E out \in RetrieverOutcomes(VectorItems, ErrVector) :
          /\ vectorCh' = Append(vectorCh, out)
          /\ log' = log \o <<Outcome("vector", out)>>
    /\ vpc' = "done"
    /\ UNCHANGED <<cvars, bvars, ovars, gvars, config, q, pc, gpc, graphCh, vectorRes, graphRes, modesUsed,
                   totalCandidates, merged, deduped, sorted, items, reranker, ret, received>>

\* GraphWorkerStart reporting an absent retriever as a failure
GraphWorkerStartFailingWhenAbsent ==
    /\ gpc = "started"
    /\ IF config.Graph
       THEN /\ received' = CallGraph(q)
            /\ gpc' = "calling"
            /\ log' = log \o <<"graph.call">>
            /\ UNCHANGED graphCh
       ELSE /\ graphCh' = Append(graphCh, [items |-> <<>>, count |-> 0,
                                           err |-> ErrGraph])
            /\ gpc' = "done"
            /\ log' = log \o <<"graph.absent">>
            /\ UNCHANGED received
    /\ UNCHANGED <<cvars, bvars, ovars, gvars, config, q, pc, vpc, vectorCh, vectorRes, graphRes, modesUsed,
                   totalCandidates, merged, deduped, sorted, items, reranker, ret>>

\* the graph goroutine of retrieveParallel starts: `if r.config.Graph != nil`
GraphWorkerStart ==
    /\ gpc = "started"
    /\ IF config.Graph
       THEN /\ received' = CallGraph(q)
            /\ gpc' = "calling"
            /\ log' = log \o <<"graph.call">>
            /\ UNCHANGED graphCh
       ELSE /\ graphCh' = Append(graphCh, EmptyResult)
            /\ gpc' = "done"
            /\ log' = log \o <<"graph.absent">>
            /\ UNCHANGED received
    /\ UNCHANGED <<cvars, bvars, ovars, gvars, config, q, pc, vpc, vectorCh, vectorRes, graphRes, modesUsed,
                   totalCandidates, merged, deduped, sorted, items, reranker, ret>>

\* GraphWorkerReturn returning from the goroutine without a send when the
\* call failed
GraphWorkerReturnSilentOnError ==
    /\ gpc = "calling"
    /\ Len(graphCh) < 1
    /\ \E out \in RetrieverOutcomes(GraphItems, ErrGraph) :
          /\ graphCh' = IF out.err # NoErr THEN graphCh ELSE Append(graphCh, out)
          /\ log' = log \o <<Outcome("graph", out)>>
    /\ gpc' = "done"
    /\ UNCHANGED <<cvars, bvars, ovars, gvars, config, q, pc, vpc, vectorCh, vectorRes, graphRes, modesUsed,
                   totalCandidates, merged, deduped, sorted, items, reranker, ret, received>>

\* the graph retriever returns to its goroutine, which sends the outcome
GraphWorkerReturn ==
    /\ gpc = "calling"
    /\ Len(graphCh) < 1
    /\ \E out \in RetrieverOutcomes(GraphItems, ErrGraph) :
          /\ graphCh' = Append(graphCh, out)
          /\ log' = log \o <<Outcome("graph", out)>>
    /\ gpc' = "done"
    /\ UNCHANGED <<cvars, bvars, ovars, gvars, config, q, pc, vpc, vectorCh, vectorRes, graphRes, modesUsed,
                   totalCandidates, merged, deduped, sorted, items, reranker, ret, received>>

\* RecvVector as a receive that does not block (select with a default)
RecvVectorWithoutWaiting ==
    /\ pc = "recv_vector"
    /\ vectorRes' = IF vectorCh # <<>> THEN Head(vectorCh) ELSE EmptyResult
    /\ vectorCh' = IF vectorCh # <<>> THEN Tail(vectorCh) ELSE vectorCh
    /\ pc' = "recv_graph"
    /\ UNCHANGED <<cvars, bvars, ovars, gvars, config, q, vpc, gpc, graphCh, graphRes, modesUsed,
                   totalCandidates, merged, deduped, sorted, items, reranker, ret,
                   received, log>>

\* vectorRes := <-vectorCh
RecvVector ==
    /\ pc = "recv_vector"
    /\ vectorCh # <<>>
    /\ vectorRes' = Head(vectorCh)
    /\ vectorCh' = Tail(vectorCh)
    /\ pc' = "recv_graph"
    /\ UNCHANGED <<cvars, bvars, ovars, gvars, config, q, vpc, gpc, graphCh, graphRes, modesUsed,
                   totalCandidates, merged, deduped, sorted, items, reranker, ret,
                   received, log>>

\* RecvGraph as a receive that does not block (select with a default)
RecvGraphWithoutWaiting ==
    /\ pc = "recv_graph"
    /\ graphRes' = IF graphCh # <<>> THEN Head(graphCh) ELSE EmptyResult
    /\ graphCh' = IF graphCh # <<>> THEN Tail(graphCh) ELSE graphCh
    /\ pc' = "collected"
    /\ UNCHANGED <<cvars, bvars, ovars, gvars, config, q, vpc, gpc, vectorCh, vectorRes, modesUsed,
                   totalCandidates, merged, deduped, sorted, items, reranker, ret,
                   received, log>>

\* graphRes := <-graphCh
RecvGraph ==
    /\ pc = "recv_graph"
    /\ graphCh # <<>>
    /\ graphRes' = Head(graphCh)
    /\ graphCh' = Tail(graphCh)
    /\ pc' = "collected"
    /\ UNCHANGED <<cvars, bvars, ovars, gvars, config, q, vpc, gpc, vectorCh, vectorRes, modesUsed,
                   totalCandidates, merged, deduped, sorted, items, reranker, ret,
                   received, log>>

\* ParallelModes listing every mode whatever came back
ParallelModesAll(vItems, gItems) == <<ModeHybrid, ModeVector, ModeGraph>>

\* modesUsed of retrieveParallel
ParallelModes(vItems, gItems) ==
    <<ModeHybrid>>
    \o (IF Len(vItems) > 0 THEN <<ModeVector>> ELSE <<>>)
    \o (IF Len(gItems) > 0 THEN <<ModeGraph>> ELSE <<>>)

\* ParallelCollect with the two error checks in the other order
ParallelCollectGraphErrorFirst ==
    /\ pc = "collected"
    /\ IF graphRes.err # NoErr
       THEN Fail(<<>>, graphRes.err)
       ELSE IF vectorRes.err # NoErr
            THEN Fail(<<>>, vectorRes.err)
            ELSE Complete(<<>>, vectorRes.items, graphRes.items,
                          ParallelModes(vectorRes.items, graphRes.items),
                          vectorRes.count + graphRes.count)
    /\ UNCHANGED <<cvars, bvars, ovars, gvars, config, q, vpc, gpc, vectorCh, graphCh, vectorRes, graphRes,
                   received>>

\* retrieveParallel after both receives: the error checks, then the merge
ParallelCollect ==
    /\ pc = "collected"
    /\ IF vectorRes.err # NoErr
       THEN Fail(<<>>, vectorRes.err)
       ELSE IF graphRes.err # NoErr
            THEN Fail(<<>>, graphRes.err)
            ELSE Complete(<<>>, vectorRes.items, graphRes.items,
                          ParallelModes(vectorRes.items, graphRes.items),
                          vectorRes.count + graphRes.count)
    /\ UNCHANGED <<cvars, bvars, ovars, gvars, config, q, vpc, gpc, vectorCh, graphCh, vectorRes, graphRes,
                   received>>

\* VTGVectorReturn listing "vector" only when the retriever returned items
VTGVectorReturnListingOnlyWithItems ==
    /\ pc = "vtg_vector"
    /\ \E out \in RetrieverOutcomes(VectorItems, ErrVector) :
          /\ vectorRes' = out
          /\ IF out.err # NoErr
             THEN Fail(<<Outcome("vector", out)>>, out.err) /\ UNCHANGED received
             ELSE VTGAfterVector(<<Outcome("vector", out)>>, out,
                                 IF Len(out.items) > 0
                                 THEN Append(modesUsed, ModeVector)
                                 ELSE modesUsed,
                                 totalCandidates + out.count)
    /\ UNCHANGED <<cvars, bvars, ovars, gvars, config, q, vpc, gpc, vectorCh, graphCh, graphRes>>

\* retrieveVectorThenGraph: the vector retriever returns
VTGVectorReturn ==
    /\ pc = "vtg_vector"
    /\ \E out \in RetrieverOutcomes(VectorItems, ErrVector) :
          /\ vectorRes' = out
          /\ IF out.err # NoErr
             THEN Fail(<<Outcome("vector", out)>>, out.err) /\ UNCHANGED received
             ELSE VTGAfterVector(<<Outcome("vector", out)>>, out,
                                 Append(modesUsed, ModeVector),
                                 totalCandidates + out.count)
    /\ UNCHANGED <<cvars, bvars, ovars, gvars, config, q, vpc, gpc, vectorCh, graphCh, graphRes>>

\* retrieveVectorThenGraph: the graph retriever returns
VTGGraphReturn ==
    /\ pc = "vtg_graph"
    /\ \E out \in RetrieverOutcomes(GraphItems, ErrGraph) :
          /\ graphRes' = out
          /\ IF out.err # NoErr
             THEN Fail(<<Outcome("graph", out)>>, out.err)
             ELSE Complete(<<Outcome("graph", out)>>, vectorRes.items, out.items,
                           Append(modesUsed, ModeGraph),
                           totalCandidates + out.count)
    /\ UNCHANGED <<cvars, bvars, ovars, gvars, config, q, vpc, gpc, vectorCh, graphCh, vectorRes, received>>

\* GTVGraphReturn swallowing the error and going on to the vector retriever
GTVGraphReturnIgnoringError ==
    /\ pc = "gtv_graph"
    /\ \E out \in RetrieverOutcomes(GraphItems, ErrGraph) :
          /\ graphRes' = out
          /\ GTVAfterGraph(<<Outcome("graph", out)>>, out,
                           Append(modesUsed, ModeGraph),
                           totalCandidates + out.count)
    /\ UNCHANGED <<cvars, bvars, ovars, gvars, config, q, vpc, gpc, vectorCh, graphCh, vectorRes>>

\* retrieveGraphThenVector: the graph retriever returns
GTVGraphReturn ==
    /\ pc = "gtv_graph"
    /\ \E out \in RetrieverOutcomes(GraphItems, ErrGraph) :
          /\ graphRes' = out
          /\ IF out.err # NoErr
             THEN Fail(<<Outcome("graph", out)>>, out.err) /\ UNCHANGED received
             ELSE GTVAfterGraph(<<Outcome("graph", out)>>, out,
                                Append(modesUsed, ModeGraph),
                                totalCandidates + out.count)
    /\ UNCHANGED <<cvars, bvars, ovars, gvars, config, q, vpc, gpc, vectorCh, graphCh, vectorRes>>

\* GTVVectorReturn replacing the candidate count instead of adding to it
GTVVectorReturnOverwritingTotal ==
    /\ pc = "gtv_vector"
    /\ \E out \in RetrieverOutcomes(VectorItems, ErrVector) :
          /\ vectorRes' = out
          /\ IF out.err # NoErr
             THEN Fail(<<Outcome("vector", out)>>, out.err)
             ELSE Complete(<<Outcome("vector", out)>>, out.items, graphRes.items,
                           Append(modesUsed, ModeVector),
                           out.count)
    /\ UNCHANGED <<cvars, bvars, ovars, gvars, config, q, vpc, gpc, vectorCh, graphCh, graphRes, received>>

\* retrieveGraphThenVector: the vector retriever returns
GTVVectorReturn ==
    /\ pc = "gtv_vector"
    /\ \E out \in RetrieverOutcomes(VectorItems, ErrVector) :
          /\ vectorRes' = out
          /\ IF out.err # NoErr
             THEN Fail(<<Outcome("vector", out)>>, out.err)
             ELSE Complete(<<Outcome("vector", out)>>, out.items, graphRes.items,
                           Append(modesUsed, ModeVector),
                           totalCandidates + out.count)
    /\ UNCHANGED <<cvars, bvars, ovars, gvars, config, q, vpc, gpc, vectorCh, graphCh, graphRes, received>>

Reverse(s) == [i \in DOMAIN s |-> s[Len(s) + 1 - i]]

\* What Reranker.Rerank can return for these items: an error, or the items
\* kept, reordered, or with the last one dropped.
RerankOutcomes(its) ==
    {[items |-> <<>>, err |-> ErrRerank]} \cup
    {[items |-> l, err |-> NoErr] :
        l \in {its, Reverse(its), SubSeq(its, 1, Len(its) - 1)}}

\* RerankReturn handing back the list it gave the reranker
RerankReturnIgnoringOutput ==
    /\ pc = "rerank"
    /\ \E out \in RerankOutcomes(items) :
          /\ reranker' = [reranker EXCEPT !.returns = Append(@, out)]
          /\ IF out.err # NoErr
             THEN /\ ret' = [result |-> <<>>, err |-> out.err]
                  /\ log' = log \o <<"rerank.err">>
             ELSE /\ ret' = [result |-> <<ResultOf(items, modesUsed, totalCandidates)>>,
                             err |-> NoErr]
                  /\ log' = log \o <<"rerank.ok">>
    /\ pc' = "done"
    /\ UNCHANGED <<cvars, bvars, ovars, gvars, config, q, vpc, gpc, vectorCh, graphCh, vectorRes, graphRes,
                   modesUsed, totalCandidates, merged, deduped, sorted, items,
                   received>>

\* `r.config.Observer.OnRerank(ctx, "hybrid", len(items), len(items), ...)`
\* under `if r.config.Observer != nil`, run after `items, err = Rerank(...)`
\* has put the reranker's list into items
RerankReports(out) ==
    IF config.Observer /\ out.err = NoErr
    THEN <<[model |-> "hybrid", inputCount |-> Len(out.items),
            outputCount |-> Len(out.items)]>>
    ELSE <<>>

\* r.config.Reranker.Rerank(ctx, q, items) returns, and Retrieve returns:
\* the error as it is, or, after the rerank event has gone to the
\* observer, a Result built from the list handed back
RerankReturn ==
    /\ pc = "rerank"
    /\ \E out \in RerankOutcomes(items) :
          /\ reranker' = [reranker EXCEPT !.returns = Append(@, out),
                                          !.reported = @ \o RerankReports(out)]
          /\ IF out.err # NoErr
             THEN /\ ret' = [result |-> <<>>, err |-> out.err]
                  /\ log' = log \o <<"rerank.err">>
                  /\ UNCHANGED items
             ELSE /\ items' = out.items
                  /\ ret' = [result |-> <<ResultOf(out.items, modesUsed, totalCandidates)>>,
                             err |-> NoErr]
                  /\ log' = log \o <<"rerank.ok">>
    /\ pc' = "done"
    /\ UNCHANGED <<cvars, bvars, ovars, gvars, config, q, vpc, gpc, vectorCh, graphCh, vectorRes, graphRes,
                   modesUsed, totalCandidates, merged, deduped, sorted, received>>

Next ==
    \/ Retrieve
    \/ VectorWorkerStart
    \/ VectorWorkerReturn
    \/ GraphWorkerStart
    \/ GraphWorkerReturn
    \/ RecvVector
    \/ RecvGraph
    \/ ParallelCollect
    \/ VTGVectorReturn
    \/ VTGGraphReturn
    \/ GTVGraphReturn
    \/ GTVVectorReturn
    \/ RerankReturn

Spec == Init /\ [][Next]_vars

\* ----------------------------------------- the Parallel policy on its own

\* a Retriever whose policy is Parallel (set, or defaulted by NewRetriever),
\* with the default weights and deduplication, and a query that asks for
\* no top-K cut: what the goroutines and the receives do depends on none
\* of the three
InitParallel ==
    /\ Init
    /\ config.Policy = PolicyParallel
    /\ config.Weights = DefaultWeights
    /\ config.DedupByID
    /\ q.TopK = 0

\* the steps of a Retrieve call under the Parallel policy
NextParallel ==
    \/ Retrieve
    \/ VectorWorkerStart
    \/ VectorWorkerReturn
    \/ GraphWorkerStart
    \/ GraphWorkerReturn
    \/ RecvVector
    \/ RecvGraph
    \/ ParallelCollect
    \/ RerankReturn

\* The Go scheduler runs every runnable goroutine: a goroutine that can
\* take its next step takes it. Every call that was entered (a retriever's
\* Retrieve, the reranker's Rerank) returns.
ParallelFairness ==
    /\ WF_vars(VectorWorkerStart)
    /\ WF_vars(VectorWorkerReturn)
    /\ WF_vars(GraphWorkerStart)
    /\ WF_vars(GraphWorkerReturn)
    /\ WF_vars(RecvVector)
    /\ WF_vars(RecvGraph)
    /\ WF_vars(ParallelCollect)
    /\ WF_vars(RerankReturn)

SpecParallel == InitParallel /\ [][NextParallel]_vars /\ ParallelFairness

\* ------------------------------------------- Retrieve with a reranker set

\* a Retriever with a reranker, with or without an observer; default
\* weights, no deduplication and a query without top-K cut, none of which
\* the reranker step reads
InitRerank ==
    /\ InitFrom({c \in RawConfigs :
                    /\ c.Reranker
                    /\ ~c.DedupByID
                    /\ c.Weights = [Vector |-> 0, Graph |-> 0]})
    /\ q.TopK = 0

SpecRerank == InitRerank /\ [][Next]_vars

\* ------------------------------------------------- KnowledgeGraph.Traverse

containsString(slice, s) == \E i \in DOMAIN slice : slice[i] = s

\* StartQueue taking the start nodes in reverse order
StartQueueReversed(g, startNodes) ==
    LET present == SelectSeq(startNodes, LAMBDA id : id \in DOMAIN g.nodes)
    IN  [i \in DOMAIN present |->
            [nodeID |-> present[Len(present) + 1 - i],
             path |-> <<present[Len(present) + 1 - i]>>, depth |-> 0]]

\* StartQueue without the `kg.nodes[id]` test
StartQueueUnchecked(g, startNodes) ==
    [i \in DOMAIN startNodes |->
        [nodeID |-> startNodes[i], path |-> <<startNodes[i]>>, depth |-> 0]]

\* the queue before the loop: the start nodes the graph holds, in order
StartQueue(g, startNodes) ==
    LET present == SelectSeq(startNodes, LAMBDA id : id \in DOMAIN g.nodes)
    IN  [i \in DOMAIN present |->
            [nodeID |-> present[i], path |-> <<present[i]>>, depth |-> 0]]

\* PassesEdgeFilters without the edge type filter
PassesEdgeFiltersWeightOnly(opts, edge) == ~(edge.Weight < opts.MinWeight)

\* LoopGuard letting one more node in than MaxNodes
LoopGuardPastLimit(st, opts) ==
    Len(st.queue) > 0 /\ Len(st.resultNodes) <= opts.MaxNodes

\* `for len(queue) > 0 && len(resultNodes) < opts.MaxNodes`
LoopGuard(st, opts) ==
    Len(st.queue) > 0 /\ Len(st.resultNodes) < opts.MaxNodes

\* DepthReached stopping one level late
DepthReachedLate(current, opts) == current.depth > opts.Depth

\* `if current.depth >= opts.Depth { continue }`
DepthReached(current, opts) == current.depth >= opts.Depth

\* the two edge filters of the inner loop
PassesEdgeFilters(opts, edge) ==
    /\ ~(Len(opts.EdgeTypes) > 0 /\ ~containsString(opts.EdgeTypes, edge.Type))
    /\ ~(edge.Weight < opts.MinWeight)

\* the inner loop over kg.edges[current.nodeID]
RECURSIVE FollowEdges(_, _, _, _)
FollowEdges(st, opts, current, es) ==
    IF es = <<>> THEN st
    ELSE LET edge == Head(es)
         IN  IF PassesEdgeFilters(opts, edge) /\ edge.To \notin st.visited
             THEN FollowEdges(
                    [st EXCEPT
                        !.queue = Append(@, [nodeID |-> edge.To,
                                             path |-> Append(current.path, edge.To),
                                             depth |-> current.depth + 1]),
                        !.resultEdges = Append(@, edge)],
                    opts, current, Tail(es))
             ELSE FollowEdges(st, opts, current, Tail(es))

\* AlreadyVisited with the re-visit guard taken out
AlreadyVisitedNever(st, id) == FALSE

\* `if visited[current.nodeID] { continue }`
AlreadyVisited(st, id) == id \in st.visited

\* Excluded with the node type filter taken out
ExcludedNever(g, opts, id) == FALSE

\* the node type filter: the node is known and its type is not listed
Excluded(g, opts, id) ==
    /\ id \in DOMAIN g.nodes
    /\ Len(opts.NodeTypes) > 0
    /\ ~containsString(opts.NodeTypes, g.nodes[id].Type)

\* the BFS loop; st holds queue, visited, resultNodes, resultEdges, paths
\* (and, for the record, the items taken from the queue)
RECURSIVE BFS(_, _, _)
BFS(g, opts, st) ==
    IF ~LoopGuard(st, opts) THEN st
    ELSE
      LET current == Head(st.queue)
          id == current.nodeID
          s1 == [st EXCEPT !.queue = Tail(@), !.dequeued = Append(@, current)]
      IN  IF AlreadyVisited(s1, id) THEN BFS(g, opts, s1)
          ELSE
            LET s2 == [s1 EXCEPT !.visited = @ \cup {id}]
                known == id \in DOMAIN g.nodes
                s3 == IF known
                      THEN [s2 EXCEPT
                              !.resultNodes = Append(@, g.nodes[id]),
                              !.paths = [i \in (DOMAIN @) \cup {id} |->
                                            IF i = id THEN current.path ELSE @[i]]]
                      ELSE s2
            IN  IF Excluded(g, opts, id) THEN BFS(g, opts, s2)
                ELSE IF DepthReached(current, opts) THEN BFS(g, opts, s3)
                ELSE BFS(g, opts, FollowEdges(s3, opts, current, g.edges[id]))

\* the locals of Traverse when its loop has ended
TraverseLocals(g, startNodes, opts) ==
    BFS(g, opts,
        [queue |-> StartQueue(g, startNodes), visited |-> {},
         resultNodes |-> <<>>, resultEdges |-> <<>>,
         paths |-> [i \in {} |-> <<>>], dequeued |-> <<>>])

\* KnowledgeGraph.Traverse: the TraversalResult
Traverse(g, startNodes, opts) ==
    LET st == TraverseLocals(g, startNodes, opts)
    IN  [Nodes |-> st.resultNodes, Edges |-> st.resultEdges, Paths |-> st.paths]

\* KnowledgeGraph.FindNodes with nodeType "": the nodes that pass the
\* metadata match, in the order the map is iterated
FindNodes(g) ==
    UNION {KeyOrders(ns) : ns \in SUBSET (DOMAIN g.nodes)}

\* ---------------------------------------------------- graph.Retriever

\* the map edgeWeights: a later edge with the same From->To overwrites
RECURSIVE EdgeWeights(_, _)
EdgeWeights(m, edges) ==
    IF edges = <<>> THEN m
    ELSE LET e == Head(edges)
             key == e.From \o "->" \o e.To
         IN  EdgeWeights([k \in (DOMAIN m) \cup {key} |->
                             IF k = key THEN e.Weight ELSE m[k]],
                         Tail(edges))

\* edgeWeights[key]: the zero value for a key the map does not hold
Lookup(m, key) == IF key \in DOMAIN m THEN m[key] ELSE 0

\* the loop over the hops of the path, from hop i on
RECURSIVE HopProduct(_, _, _)
HopProduct(path, m, i) ==
    IF i > Len(path) - 1 THEN 1
    ELSE LET weight == Lookup(m, path[i] \o "->" \o path[i + 1])
             w == IF weight = 0 THEN DefaultEdgeWeight ELSE weight
         IN  (w * DecayFactor) * HopProduct(path, m, i + 1)

\* computePathScore, as the fraction num / 100^hops
computePathScore(path, edges) ==
    IF Len(path) = 0 THEN [num |-> 1, hops |-> 0]
    ELSE [num |-> HopProduct(path, EdgeWeights([k \in {} |-> 0], edges), 1),
          hops |-> Len(path) - 1]

RECURSIVE Pow(_, _)
Pow(b, n) == IF n = 0 THEN 1 ELSE b * Pow(b, n - 1)

\* `score < q.MinScore` for a score num / 100^hops and MinScore in tenths
ScoreBelow(score, minScore) == score.num * 10 < minScore * Pow(100, score.hops)

\* startNodes from the entity hints: the non-empty IDs, in order
HintedNodes(entities) ==
    LET named == SelectSeq(entities, LAMBDA e : e.ID # "")
    IN  [i \in DOMAIN named |-> named[i].ID]

\* the TraversalOptions the retriever builds
OptionsFor(gq) ==
    [Depth |-> IF gq.MaxDepth = 0 THEN GraphRetrieverConfig.DefaultDepth
               ELSE gq.MaxDepth,
     EdgeTypes |-> GraphRetrieverConfig.EdgeTypes,
     NodeTypes |-> <<>>,
     MaxNodes |-> IF gq.TopK = 0 THEN GraphRetrieverConfig.DefaultMaxNodes
                  ELSE gq.TopK,
     MinWeight |-> gq.MinScore]

\* the conversion loop: one ContextItem per node whose score passes
RECURSIVE ItemsOf(_, _, _)
ItemsOf(nodes, result, gq) ==
    IF nodes = <<>> THEN <<>>
    ELSE LET node == Head(nodes)
             path == result.Paths[node.ID]
             score == computePathScore(path, result.Edges)
         IN  IF ScoreBelow(score, gq.MinScore) /\ gq.MinScore > 0
             THEN ItemsOf(Tail(nodes), result, gq)
             ELSE <<[ID |-> node.ID, Score |-> score,
                     Provenance |-> [Mode |-> ModeGraph, GraphPath |-> path]]>>
                  \o ItemsOf(Tail(nodes), result, gq)

GraphResultOf(its, gq, total) ==
    [Items |-> its, Query |-> gq,
     Metadata |-> [TotalCandidates |-> total, ModesUsed |-> <<ModeGraph>>]]

\* ------------------------------------------------------- graph-side spec

\* the hybrid orchestrator while only the graph side is looked at
HybridUnused ==
    /\ config = NewRetriever([Vector |-> FALSE, Graph |-> FALSE, Policy |-> "",
                              Weights |-> [Vector |-> 0, Graph |-> 0],
                              Reranker |-> FALSE, DedupByID |-> FALSE,
                              Observer |-> FALSE])
    /\ q = [Text |-> "", Entities |-> <<>>, MaxDepth |-> 0, TopK |-> 0]
    /\ pc = "unused"
    /\ vpc = "none"
    /\ gpc = "none"
    /\ vectorCh = <<>>
    /\ graphCh = <<>>
    /\ vectorRes = EmptyResult
    /\ graphRes = EmptyResult
    /\ modesUsed = <<>>
    /\ totalCandidates = 0
    /\ merged = <<>>
    /\ deduped = <<>>
    /\ sorted = <<>>
    /\ items = <<>>
    /\ ret = [result |-> <<>>, err |-> NoErr]
    /\ received = [vector |-> <<>>, graph |-> <<>>]
    /\ reranker = [calls |-> <<>>, returns |-> <<>>, reported |-> <<>>]
    /\ log = <<>>

hvars == <<config, q, pc, vpc, gpc, vectorCh, graphCh, vectorRes, graphRes,
           modesUsed, totalCandidates, merged, deduped, sorted, items,
           reranker, ret, received, log>>

\* a stocked graph, and no call made yet
InitGraph ==
    /\ HybridUnused
    /\ ObserverUnused
    /\ BatchUnused
    /\ ConcurrencyUnused
    /\ kg \in KnowledgeGraphs
    /\ gop = "none"
    /\ traverseArgs = <<>>
    /\ traversal = <<>>
    /\ dequeued = <<>>
    /\ graphQuery = <<>>
    /\ graphResult = <<>>
    /\ gerr = <<>>

\* a caller runs kg.Traverse(ctx, startNodes, opts)
KGTraverse ==
    /\ gop = "none"
    /\ \E startNodes \in StartLists, opts \in TraversalOptionsSet :
          /\ traverseArgs' = <<[startNodes |-> startNodes, opts |-> opts]>>
          /\ traversal' = <<Traverse(kg, startNodes, opts)>>
          /\ dequeued' = TraverseLocals(kg, startNodes, opts).dequeued
    /\ gerr' = <<NoErr>>
    /\ gop' = "Traverse"
    /\ UNCHANGED <<cvars, bvars, ovars, hvars, kg, graphQuery, graphResult>>

\* a caller runs the graph retriever's Retrieve(ctx, gq)
GraphRetrieve ==
    /\ gop = "none"
    /\ \E gq \in GraphQueries :
          LET hinted == HintedNodes(gq.Entities)
          IN  \E startNodes \in (IF Len(hinted) = 0 THEN FindNodes(kg)
                                 ELSE {hinted}) :
                /\ graphQuery' = <<gq>>
                /\ IF Len(startNodes) = 0
                   THEN /\ graphResult' = <<GraphResultOf(<<>>, gq, 0)>>
                        /\ UNCHANGED <<traverseArgs, traversal, dequeued>>
                   ELSE LET opts == OptionsFor(gq)
                            result == Traverse(kg, startNodes, opts)
                        IN  /\ traverseArgs' = <<[startNodes |-> startNodes,
                                                  opts |-> opts]>>
                            /\ traversal' = <<result>>
                            /\ dequeued' =
                                 TraverseLocals(kg, startNodes, opts).dequeued
                            /\ graphResult' =
                                 <<GraphResultOf(ItemsOf(result.Nodes, result, gq),
                                                 gq, Len(result.Nodes))>>
    /\ gerr' = <<NoErr>>
    /\ gop' = "Retrieve"
    /\ UNCHANGED <<cvars, bvars, ovars, hvars, kg>>

NextGraph ==
    \/ KGTraverse
    \/ GraphRetrieve

SpecGraph == InitGraph /\ [][NextGraph]_vars

\* ------------------------------------------------------ observe: the model

SpanTypeRetrieval == "retrieval"
SpanTypeVectorSearch == "retrieve.vector.search"
SpanTypeGraphTraverse == "retrieve.graph.traverse"
SpanTypeRerank == "retrieve.rerank"

SpanStatusOK == "ok"
SpanStatusError == "error"

\* the error an exporter's Export returns, and the error a retrieval ended
\* with (context.DeadlineExceeded in the tests)
ErrExport == "export failed"
ErrDeadline == "context deadline exceeded"

\* a context is the list of the SpanContext values stored in it: none for
\* context.Background(), one after ToContext
Background == <<>>

ToContext(sc) == <<sc>>

\* FromContext(ctx) != nil
HasSpanContext(ctx) == ctx # Background

\* FromContext(ctx), where there is one
FromContext(ctx) == ctx[1]

\* the contexts a caller can hand to the observer
Contexts == {Background} \cup ctxs

\* what time.Now() can read next: the clock never runs backwards, and two
\* readings taken in a row can be equal; the first reading is 1
Now == {clock + 1} \cup {t \in {clock} : t > 0}

\* generateID(): the first 16 hex digits of the SHA-256 of
\* time.Now().String(), so that equal readings give equal ids
generateID(now) == "id" \o ToString(now)

\* the exporters an Observer can be configured with
ExporterLists == {[i \in 1..n |-> "exporter" \o ToString(i)] : n \in 0..MaxExporters}

\* the zero time.Time of a span that has not ended
ZeroTime == 0 - 1

\* the Span literal of OnRetrieveStart
RetrievalSpan(spanID, traceID, parentID, now) ==
    [ID |-> spanID, TraceID |-> traceID, ParentID |-> parentID,
     Type |-> SpanTypeRetrieval, EndTime |-> ZeroTime,
     Status |-> SpanStatusOK, Error |-> ""]

\* the Span literal of OnVectorSearch, OnGraphTraverse and OnRerank
ChildSpan(spanID, sc, type, now) ==
    [ID |-> spanID, TraceID |-> sc.TraceID, ParentID |-> sc.SpanID,
     Type |-> type, EndTime |-> now,
     Status |-> SpanStatusOK, Error |-> ""]

\* o.traces[traceID] = append(o.traces[traceID], spanID)
AppendToTrace(traceID, spanID) ==
    Put(traces, traceID,
        (IF traceID \in DOMAIN traces THEN traces[traceID] ELSE <<>>)
        \o <<spanID>>)

\* a map without some of its keys: delete(m, k) for every k in keys
Without(m, keys) == [k \in (DOMAIN m) \ keys |-> m[k]]

\* one entry of olog
Event(op, ctx, id, err, exported) ==
    [op |-> op, ctx |-> ctx, id |-> id, err |-> err, exported |-> exported]

\* the spans of a trace as exportTrace collects them: `for _, id := range
\* spanIDs { if span, ok := o.spans[id]; ok { append *span } }`
CollectSpans(m, spanIDs) ==
    LET present == SelectSeq(spanIDs, LAMBDA id : id \in DOMAIN m)
    IN  [i \in DOMAIN present |-> m[present[i]]]

\* ExportCalls giving up at the first exporter that fails
ExportCallsStoppingAtError(batch, outs, at) ==
    LET failing == {i \in DOMAIN outs : outs[i] # NoErr}
        last == IF failing = {} THEN Len(outs)
                ELSE CHOOSE i \in failing : \A j \in failing : i <= j
    IN  [i \in 1..last |->
            [exporter |-> exporters[i], spans |-> batch, err |-> outs[i],
             at |-> at]]

\* the loop over o.exporters in exportTrace: every exporter is handed the
\* batch, whatever the exporters before it returned
ExportCalls(batch, outs, at) ==
    [i \in DOMAIN exporters |->
        [exporter |-> exporters[i], spans |-> batch, err |-> outs[i],
         at |-> at]]

\* the o.logger.Error records of the loop
LogRecords(calls) ==
    LET failed == SelectSeq(calls, LAMBDA c : c.err # NoErr)
    IN  IF logger
        THEN [i \in DOMAIN failed |->
                 [msg |-> "failed to export spans",
                  exporter |-> failed[i].exporter, error |-> failed[i].err]]
        ELSE <<>>

\* NewObserver(cfg): nothing recorded yet
InitObserve ==
    /\ HybridUnused
    /\ GraphUnused
    /\ BatchUnused
    /\ ConcurrencyUnused
    /\ exporters \in ExporterLists
    /\ logger \in BOOLEAN
    /\ spans = <<>>
    /\ traces = <<>>
    /\ clock = 0
    /\ ctxs = {}
    /\ olog = <<>>
    /\ exports = <<>>
    /\ logged = <<>>

\* o.OnRetrieveStart(ctx, q)
OnRetrieveStart ==
    /\ Len(olog) < MaxEvents
    /\ \E ctx \in Contexts, now \in Now :
          LET spanID == generateID(now)
              traceID == IF HasSpanContext(ctx) THEN FromContext(ctx).TraceID
                         ELSE spanID
              parentID == IF HasSpanContext(ctx) THEN FromContext(ctx).SpanID
                          ELSE ""
              out == ToContext([TraceID |-> traceID, SpanID |-> spanID,
                                ParentID |-> parentID])
          IN  /\ spans' = Put(spans, spanID,
                              RetrievalSpan(spanID, traceID, parentID, now))
              /\ traces' = AppendToTrace(traceID, spanID)
              /\ ctxs' = ctxs \cup {out}
              /\ clock' = now
              /\ olog' = Append(olog, Event("OnRetrieveStart", ctx, spanID,
                                            NoErr, FALSE))
    /\ UNCHANGED <<exporters, logger, exports, logged, hvars, gvars, bvars, cvars>>

\* the body of OnVectorSearch, OnGraphTraverse and OnRerank, which differ
\* in the span type (and in attributes the model leaves out): nothing
\* happens on a context without span context
OnChildEvent(op, type, ctx) ==
    IF ~HasSpanContext(ctx)
    THEN UNCHANGED <<spans, traces, clock, olog>>
    ELSE \E now \in Now :
            LET sc == FromContext(ctx)
                spanID == generateID(now)
            IN  /\ spans' = Put(spans, spanID, ChildSpan(spanID, sc, type, now))
                /\ traces' = AppendToTrace(sc.TraceID, spanID)
                /\ clock' = now
                /\ olog' = Append(olog, Event(op, ctx, spanID, NoErr, FALSE))

\* o.OnVectorSearch(ctx, backend, topK, resultCount, latencyMS)
OnVectorSearch ==
    /\ Len(olog) < MaxEvents
    /\ \E ctx \in Contexts :
          OnChildEvent("OnVectorSearch", SpanTypeVectorSearch, ctx)
    /\ UNCHANGED <<exporters, logger, ctxs, exports, logged, hvars, gvars, bvars, cvars>>

\* o.OnGraphTraverse(ctx, backend, depth, nodeCount, latencyMS)
OnGraphTraverse ==
    /\ Len(olog) < MaxEvents
    /\ \E ctx \in Contexts :
          OnChildEvent("OnGraphTraverse", SpanTypeGraphTraverse, ctx)
    /\ UNCHANGED <<exporters, logger, ctxs, exports, logged, hvars, gvars, bvars, cvars>>

\* o.OnRerank(ctx, model, inputCount, outputCount, latencyMS)
OnRerank ==
    /\ Len(olog) < MaxEvents
    /\ \E ctx \in Contexts :
          OnChildEvent("OnRerank", SpanTypeRerank, ctx)
    /\ UNCHANGED <<exporters, logger, ctxs, exports, logged, hvars, gvars, bvars, cvars>>

\* the span of OnRetrieveEnd after `span.EndTime = time.Now()` and the
\* status update
EndedSpan(span, err, now) ==
    IF err # NoErr
    THEN [span EXCEPT !.EndTime = now, !.Status = SpanStatusError, !.Error = err]
    ELSE [span EXCEPT !.EndTime = now]

\* o.OnRetrieveEnd(ctx, r, err), exportTrace included. The reading of
\* time.Now() taken here names no span; the model takes it to be the
\* last reading.
OnRetrieveEnd ==
    /\ Len(olog) < MaxEvents
    /\ \E ctx \in Contexts, err \in {NoErr, ErrDeadline} :
          IF ~HasSpanContext(ctx)
          THEN UNCHANGED <<spans, traces, olog, exports, logged>>
          ELSE LET sc == FromContext(ctx)
               IN  IF sc.SpanID \notin DOMAIN spans
                   THEN /\ olog' = Append(olog, Event("OnRetrieveEnd", ctx, "",
                                                      err, FALSE))
                        /\ UNCHANGED <<spans, traces, exports, logged>>
                   ELSE LET ended == [spans EXCEPT
                                         ![sc.SpanID] = EndedSpan(@, err, clock)]
                        IN  IF sc.TraceID \notin DOMAIN traces
                            THEN /\ spans' = ended
                                 /\ olog' = Append(olog, Event("OnRetrieveEnd",
                                                        ctx, "", err, FALSE))
                                 /\ UNCHANGED <<traces, exports, logged>>
                            ELSE LET spanIDs == traces[sc.TraceID]
                                     batch == CollectSpans(ended, spanIDs)
                                 IN  \E outs \in [DOMAIN exporters ->
                                                     {NoErr, ErrExport}] :
                                        LET calls == ExportCalls(batch, outs,
                                                                 Len(olog) + 1)
                                        IN  /\ exports' = exports \o calls
                                            /\ logged' = logged \o LogRecords(calls)
                                            /\ spans' = Without(ended,
                                                 {spanIDs[i] : i \in DOMAIN spanIDs})
                                            /\ traces' = Without(traces, {sc.TraceID})
                                            /\ olog' = Append(olog,
                                                 Event("OnRetrieveEnd", ctx, "",
                                                       err, TRUE))
    /\ UNCHANGED <<exporters, logger, clock, ctxs, hvars, gvars, bvars, cvars>>

NextObserve ==
    \/ OnRetrieveStart
    \/ OnVectorSearch
    \/ OnGraphTraverse
    \/ OnRerank
    \/ OnRetrieveEnd

SpecObserve == InitObserve /\ [][NextObserve]_vars

\* ------------------------------------------------------ pgvector: InsertBatch

\* the ids a batch is drawn from
BatchIDs == {"n1", "n2"}

\* a vector.Node, by its ID and its Metadata (a map[string]string)
NodeValues == {[ID |-> i, Metadata |-> m] : i \in BatchIDs, m \in {"{}", "{k:v}"}}

\* json.Marshal of a map[string]string: the JSON text and a nil error
jsonMarshal(m) == [json |-> m, err |-> NoErr]

\* the rows of the sequence ids that break the PRIMARY KEY of the table
KeyConflict(ids) ==
    \/ \E i \in DOMAIN ids : ids[i] \in table
    \/ \E i, j \in DOMAIN ids : i # j /\ ids[i] = ids[j]

InitBatch ==
    /\ table \in SUBSET BatchIDs
    /\ inserted \in SeqsUpTo(NodeValues, MaxBatch)
    /\ bpc = "entry"
    /\ tx = "none"
    /\ stmt = "none"
    /\ copied = <<>>
    /\ berr = NoErr
    /\ bret = NoErr
    /\ HybridUnused
    /\ GraphUnused
    /\ ObserverUnused
    /\ ConcurrencyUnused

\* the deferred calls of InsertBatch, run as it returns: stmt.Close() when the
\* statement was prepared, then tx.Rollback() when the function-scope err is
\* non-nil
RunDeferred(prepared, err, t) ==
    [stmt |-> IF prepared THEN "closed" ELSE "none",
     tx |-> IF err # NoErr /\ t = "open" THEN "rolled_back" ELSE t]

\* InsertBatch up to BeginTx: an empty batch returns nil at once, a failed
\* BeginTx returns before anything is deferred
BeginTx ==
    /\ bpc = "entry"
    /\ IF Len(inserted) = 0
       THEN /\ bpc' = "returned"
            /\ UNCHANGED <<tx, berr, bret>>
       ELSE \E ok \in BOOLEAN :
                IF ok
                THEN /\ tx' = "open"
                     /\ bpc' = "prepare"
                     /\ UNCHANGED <<berr, bret>>
                ELSE /\ berr' = "driver error"
                     /\ bret' = "failed to begin transaction"
                     /\ bpc' = "returned"
                     /\ UNCHANGED tx
    /\ UNCHANGED <<table, inserted, stmt, copied, hvars, gvars, ovars, cvars>>

\* tx.PrepareContext: `stmt, err :=` assigns the function-scope err
PrepareContext ==
    /\ bpc = "prepare"
    /\ \E ok \in BOOLEAN :
           IF ok
           THEN /\ stmt' = "open"
                /\ bpc' = "loop"
                /\ UNCHANGED <<tx, berr, bret>>
           ELSE /\ berr' = "driver error"
                /\ bret' = "failed to prepare statement"
                /\ tx' = RunDeferred(FALSE, berr', tx).tx
                /\ bpc' = "returned"
                /\ UNCHANGED stmt
    /\ UNCHANGED <<table, inserted, copied, hvars, gvars, ovars, cvars>>

\* one iteration of the loop over the nodes: `metadataJSON, err :=` declares
\* an err of the loop body, which the ExecContext of the node assigns too; the
\* function-scope err keeps its value
CopyNode ==
    /\ bpc = "loop"
    /\ Len(copied) < Len(inserted)
    /\ LET node == inserted[Len(copied) + 1]
           marshalled == jsonMarshal(node.Metadata)
       IN  IF marshalled.err # NoErr
           THEN /\ bret' = "failed to marshal metadata"
                /\ stmt' = RunDeferred(TRUE, berr, tx).stmt
                /\ tx' = RunDeferred(TRUE, berr, tx).tx
                /\ bpc' = "returned"
                /\ UNCHANGED copied
           ELSE \E ok \in BOOLEAN :
                    IF ok
                    THEN /\ copied' = Append(copied, node.ID)
                         /\ UNCHANGED <<bpc, tx, stmt, bret>>
                    ELSE /\ bret' = "failed to exec"
                         /\ stmt' = RunDeferred(TRUE, berr, tx).stmt
                         /\ tx' = RunDeferred(TRUE, berr, tx).tx
                         /\ bpc' = "returned"
                         /\ UNCHANGED copied
    /\ UNCHANGED <<table, inserted, berr, hvars, gvars, ovars, cvars>>

\* the ExecContext without arguments that flushes the COPY buffer: `_, err =`
\* assigns the function-scope err; rows that break the primary key fail it
FlushCopy ==
    /\ bpc = "loop"
    /\ Len(copied) = Len(inserted)
    /\ \E ok \in {b \in BOOLEAN : b => ~KeyConflict(copied)} :
           IF ok
           THEN /\ bpc' = "commit"
                /\ UNCHANGED <<tx, stmt, berr, bret>>
           ELSE /\ berr' = "driver error"
                /\ bret' = "failed to flush COPY"
                /\ stmt' = RunDeferred(TRUE, berr', tx).stmt
                /\ tx' = RunDeferred(TRUE, berr', tx).tx
                /\ bpc' = "returned"
    /\ UNCHANGED <<table, inserted, copied, hvars, gvars, ovars, cvars>>

\* tx.Commit(): `if err :=` declares an err of the if statement; a commit that
\* fails ends the transaction without storing a row
Commit ==
    /\ bpc = "commit"
    /\ \E ok \in BOOLEAN :
           IF ok
           THEN /\ table' = table \cup {copied[i] : i \in DOMAIN copied}
                /\ stmt' = RunDeferred(TRUE, berr, "committed").stmt
                /\ tx' = RunDeferred(TRUE, berr, "committed").tx
                /\ UNCHANGED bret
           ELSE /\ bret' = "failed to commit transaction"
                /\ stmt' = RunDeferred(TRUE, berr, "commit_failed").stmt
                /\ tx' = RunDeferred(TRUE, berr, "commit_failed").tx
                /\ UNCHANGED table
    /\ bpc' = "returned"
    /\ UNCHANGED <<inserted, copied, berr, hvars, gvars, ovars, cvars>>

NextBatch ==
    \/ BeginTx
    \/ PrepareContext
    \/ CopyNode
    \/ FlushCopy
    \/ Commit

SpecBatch == InitBatch /\ [][NextBatch]_vars

\* ------------------------------------ KnowledgeGraph: mutators and the lock

\* the loop body of Traverse, run once on the graph g
LoopPass(g, opts, st) ==
    LET current == Head(st.queue)
        id == current.nodeID
        s1 == [st EXCEPT !.queue = Tail(@), !.dequeued = Append(@, current)]
    IN  IF AlreadyVisited(s1, id) THEN s1
        ELSE
          LET s2 == [s1 EXCEPT !.visited = @ \cup {id}]
              s3 == IF id \in DOMAIN g.nodes
                    THEN [s2 EXCEPT
                            !.resultNodes = Append(@, g.nodes[id]),
                            !.paths = [i \in (DOMAIN @) \cup {id} |->
                                          IF i = id THEN current.path ELSE @[i]]]
                    ELSE s2
          IN  IF Excluded(g, opts, id) THEN s2
              ELSE IF DepthReached(current, opts) THEN s3
              ELSE FollowEdges(s3, opts, current, g.edges[id])

\* `kg.nodes[node.ID] = node`
WithNode(g, node) ==
    [g EXCEPT !.nodes = [i \in (DOMAIN @) \cup {node.ID} |->
                            IF i = node.ID THEN node ELSE @[i]]]

\* `kg.edges[edge.From] = append(kg.edges[edge.From], edge)`
WithEdge(g, edge) == [g EXCEPT !.edges[edge.From] = Append(@, edge)]

\* the edges of a list other than those to `to` of type `type`
OtherEdges(es, to, type) ==
    SelectSeq(es, LAMBDA e : e.To # to \/ e.Type # type)

\* UpsertEdge: the edge replaces those of its From, To and Type
WithEdgeUpserted(g, edge) ==
    [g EXCEPT !.edges[edge.From] =
                 Append(OtherEdges(@, edge.To, edge.Type), edge)]

\* DeleteEdge
WithoutEdge(g, from, to, type) ==
    [g EXCEPT !.edges[from] = OtherEdges(@, to, type)]

\* DeleteNode up to its loop: `delete(kg.nodes, id)`, `delete(kg.edges, id)`
WithoutNode(g, id) ==
    [nodes |-> [i \in (DOMAIN g.nodes) \ {id} |-> g.nodes[i]],
     edges |-> [g.edges EXCEPT ![id] = <<>>]]

\* the loop of DeleteNode: the edges pointing to the node are removed
WithoutEdgesTo(g, id) ==
    [g EXCEPT !.edges = [from \in DOMAIN @ |->
                            SelectSeq(@[from], LAMBDA e : e.To # id)]]

\* the nodes, edges and edge keys the mutators are called with
MutatedNodes == {GraphNode(id) : id \in {"a", "b"}}
MutatedEdges ==
    {EdgeStock[1], EdgeStock[4], GraphEdge("a", "b", "relates_to", 5)}

\* the graphs the callers find: a new one, one holding a and c, and one
\* holding a, b and c with the edges a->b and b->c
FoundGraphs ==
    {EmptyGraph,
     WithNode(WithNode(EmptyGraph, GraphNode("a")), GraphNode("c")),
     WithEdge(WithEdge(WithNode(WithNode(WithNode(EmptyGraph,
         GraphNode("a")), GraphNode("b")), GraphNode("c")),
         EdgeStock[1]), EdgeStock[4])}

\* the arguments of the Traverse call of goroutine t: the first starts at
\* a, the second at b and a
ConcurrentTraversals(t) ==
    {[startNodes |-> IF t = 1 THEN <<"a">> ELSE <<"b", "a">>,
      opts |-> [Depth |-> MaxDepth, EdgeTypes |-> <<>>, NodeTypes |-> nt,
                MaxNodes |-> MaxNodesLimit, MinWeight |-> 0]] :
        nt \in {<<>>, <<"concept">>}}

\* the locals of Traverse before its first loop
NoLocals ==
    [queue |-> <<>>, visited |-> {}, resultNodes |-> <<>>,
     resultEdges |-> <<>>, paths |-> [i \in {} |-> <<>>], dequeued |-> <<>>]

\* mu.RLock() returning at once whatever the writer does
CanRLockWhileWriting(m) == TRUE

\* mu.RLock() returns once no writer holds the lock
CanRLock(m) == ~m.writer

\* mu.Lock() returns once no reader and no writer holds the lock
CanLock(m) == ~m.writer /\ m.readers = 0

InitConcurrent ==
    /\ kg \in FoundGraphs
    /\ mu = [readers |-> 0, writer |-> FALSE]
    /\ deleting = ""
    /\ graphs = <<kg>>
    /\ tpc = [t \in Traversers |-> "idle"]
    /\ \E a1 \in ConcurrentTraversals(1), a2 \in ConcurrentTraversals(2) :
          tcall = [t \in Traversers |->
                      [args |-> IF t = 1 THEN a1 ELSE a2, from |-> 0, to |-> 0]]
    /\ tlocals = [t \in Traversers |-> NoLocals]
    /\ tresult = [t \in Traversers |-> <<>>]
    /\ gop = "unused"
    /\ traverseArgs = <<>>
    /\ traversal = <<>>
    /\ dequeued = <<>>
    /\ graphQuery = <<>>
    /\ graphResult = <<>>
    /\ gerr = <<>>
    /\ HybridUnused
    /\ ObserverUnused
    /\ BatchUnused

\* AddNode: the lock is taken, the node stored, the lock released
AddNode ==
    /\ CanLock(mu)
    /\ Len(graphs) <= MaxMutations
    /\ \E node \in MutatedNodes : kg' = WithNode(kg, node)
    /\ graphs' = Append(graphs, kg')
    /\ UNCHANGED <<mu, deleting, tpc, tcall, tlocals, tresult, traverseArgs,
                   traversal, dequeued, gop, graphQuery, graphResult, gerr,
                   hvars, ovars, bvars>>

\* AddEdge, likewise: the edge is appended to the list of its From
AddEdge ==
    /\ CanLock(mu)
    /\ Len(graphs) <= MaxMutations
    /\ \E edge \in MutatedEdges : kg' = WithEdge(kg, edge)
    /\ graphs' = Append(graphs, kg')
    /\ UNCHANGED <<mu, deleting, tpc, tcall, tlocals, tresult, traverseArgs,
                   traversal, dequeued, gop, graphQuery, graphResult, gerr,
                   hvars, ovars, bvars>>

\* UpsertEdge, likewise
UpsertEdge ==
    /\ CanLock(mu)
    /\ Len(graphs) <= MaxMutations
    /\ \E edge \in MutatedEdges : kg' = WithEdgeUpserted(kg, edge)
    /\ graphs' = Append(graphs, kg')
    /\ UNCHANGED <<mu, deleting, tpc, tcall, tlocals, tresult, traverseArgs,
                   traversal, dequeued, gop, graphQuery, graphResult, gerr,
                   hvars, ovars, bvars>>

\* DeleteEdge, likewise
DeleteEdge ==
    /\ CanLock(mu)
    /\ Len(graphs) <= MaxMutations
    /\ \E edge \in MutatedEdges : kg' = WithoutEdge(kg, edge.From, edge.To, edge.Type)
    /\ graphs' = Append(graphs, kg')
    /\ UNCHANGED <<mu, deleting, tpc, tcall, tlocals, tresult, traverseArgs,
                   traversal, dequeued, gop, graphQuery, graphResult, gerr,
                   hvars, ovars, bvars>>

\* DeleteNode up to its loop: the lock is taken, the node and its own edge
\* list are deleted
DeleteNode ==
    /\ CanLock(mu)
    /\ Len(graphs) <= MaxMutations
    /\ \E id \in {"a", "b"} :
          /\ kg' = WithoutNode(kg, id)
          /\ deleting' = id
    /\ mu' = [mu EXCEPT !.writer = TRUE]
    /\ UNCHANGED <<graphs, tpc, tcall, tlocals, tresult, traverseArgs,
                   traversal, dequeued, gop, graphQuery, graphResult, gerr,
                   hvars, ovars, bvars>>

\* the loop of DeleteNode and its return, which releases the lock
DeleteNodeEdges ==
    /\ mu.writer
    /\ kg' = WithoutEdgesTo(kg, deleting)
    /\ graphs' = Append(graphs, kg')
    /\ deleting' = ""
    /\ mu' = [mu EXCEPT !.writer = FALSE]
    /\ UNCHANGED <<tpc, tcall, tlocals, tresult, traverseArgs,
                   traversal, dequeued, gop, graphQuery, graphResult, gerr,
                   hvars, ovars, bvars>>

\* Traverse takes the read lock
TraverseRLock ==
    /\ \E t \in Traversers :
          /\ tpc[t] = "idle"
          /\ CanRLock(mu)
          /\ tpc' = [tpc EXCEPT ![t] = "start"]
          /\ tcall' = [tcall EXCEPT ![t].from = Len(graphs)]
    /\ mu' = [mu EXCEPT !.readers = @ + 1]
    /\ UNCHANGED <<deleting, graphs, tlocals, tresult, gvars, hvars, ovars,
                   bvars>>

\* the loop over startNodes that fills the queue
TraverseStart ==
    /\ \E t \in Traversers :
          /\ tpc[t] = "start"
          /\ tpc' = [tpc EXCEPT ![t] = "loop"]
          /\ tlocals' = [tlocals EXCEPT
                            ![t].queue = StartQueue(kg, tcall[t].args.startNodes)]
    /\ UNCHANGED <<mu, deleting, graphs, tcall, tresult, gvars, hvars, ovars,
                   bvars>>

\* one pass of the BFS loop
TraverseLoop ==
    /\ \E t \in Traversers :
          /\ tpc[t] = "loop"
          /\ LoopGuard(tlocals[t], tcall[t].args.opts)
          /\ tlocals' = [tlocals EXCEPT
                            ![t] = LoopPass(kg, tcall[t].args.opts, @)]
    /\ UNCHANGED <<mu, deleting, graphs, tpc, tcall, tresult, gvars, hvars,
                   ovars, bvars>>

\* the loop has ended: Traverse returns its result and releases the read lock
TraverseReturn ==
    /\ \E t \in Traversers :
          /\ tpc[t] = "loop"
          /\ ~LoopGuard(tlocals[t], tcall[t].args.opts)
          /\ tresult' = [tresult EXCEPT
                            ![t] = <<[Nodes |-> tlocals[t].resultNodes,
                                      Edges |-> tlocals[t].resultEdges,
                                      Paths |-> tlocals[t].paths]>>]
          /\ tpc' = [tpc EXCEPT ![t] = "returned"]
          /\ tcall' = [tcall EXCEPT ![t].to = Len(graphs)]
    /\ mu' = [mu EXCEPT !.readers = @ - 1]
    /\ UNCHANGED <<deleting, graphs, tlocals, gvars, hvars, ovars, bvars>>

NextConcurrent ==
    \/ AddNode
    \/ AddEdge
    \/ UpsertEdge
    \/ DeleteEdge
    \/ DeleteNode
    \/ DeleteNodeEdges
    \/ TraverseRLock
    \/ TraverseStart
    \/ TraverseLoop
    \/ TraverseReturn

SpecConcurrent == InitConcurrent /\ [][NextConcurrent]_vars

\* ------------------------------------------------------------- properties

Occurs(ev) == \E i \in DOMAIN log : log[i] = ev

Count(ev) == Cardinality({i \in DOMAIN log : log[i] = ev})

\* some event of evs lies before position i of the log
SomeBefore(evs, i) == \E j \in 1..(i - 1) : log[j] \in evs

VectorFinished == {"vector.ok", "vector.err", "vector.absent"}
GraphFinished == {"graph.ok", "graph.err", "graph.absent"}
PostMergeEvents ==
    {"merge", "dedup", "sort", "topk", "rerank.call", "rerank.ok", "rerank.err"}

RetrieverFailed == Occurs("vector.err") \/ Occurs("graph.err")

Occurrences(its, id) == Cardinality({i \in DOMAIN its : its[i].ID = id})

ScoreOf(its, id) == its[CHOOSE i \in DOMAIN its : its[i].ID = id].Score

MaxScore(its, id) ==
    CHOOSE s \in {its[i].Score : i \in {j \in DOMAIN its : its[j].ID = id}} :
        \A i \in DOMAIN its : its[i].ID = id => its[i].Score <= s

\* C1: under the Parallel policy a merge is only ever performed after both
\* retriever goroutines have finished (with success, with an error, or as
\* absent), and at the time of the merge both have terminated.
C1_MergeAfterBothBranches ==
    config.Policy = PolicyParallel =>
        /\ \A i \in DOMAIN log :
              log[i] = "merge" =>
                  SomeBefore(VectorFinished, i) /\ SomeBefore(GraphFinished, i)
        /\ Occurs("merge") => vpc = "done" /\ gpc = "done"

\* a Parallel call with both retrievers configured has merged, and the
\* graph call had finished before the vector call
C1_Witness ==
    /\ config.Policy = PolicyParallel
    /\ Occurs("merge")
    /\ \E i, j \in DOMAIN log :
          i < j /\ log[i] = "graph.ok" /\ log[j] = "vector.ok"

\* C2: under the Parallel policy, once a retriever has returned an error no
\* merge is performed and no items are produced, and the call returns a nil
\* Result with the vector retriever's error if that one failed, otherwise
\* with the graph retriever's error.
C2_ParallelErrorPrecedence ==
    (config.Policy = PolicyParallel /\ RetrieverFailed) =>
        /\ ~Occurs("merge")
        /\ items = <<>>
        /\ pc \in {"recv_vector", "recv_graph", "collected", "done"}
        /\ pc = "done" =>
              /\ ret.result = <<>>
              /\ ret.err = IF Occurs("vector.err") THEN ErrVector ELSE ErrGraph

\* both retrievers failed, the graph retriever first, and the call returned
C2_Witness ==
    /\ config.Policy = PolicyParallel
    /\ pc = "done"
    /\ \E i, j \in DOMAIN log :
          i < j /\ log[i] = "graph.err" /\ log[j] = "vector.err"

\* C3: under VectorThenGraph the graph retriever is only invoked after the
\* vector retriever has returned successfully, and under GraphThenVector
\* (with a graph retriever configured) the vector retriever only after the
\* graph retriever has; when the first retriever fails the second is never
\* invoked and the call has returned a nil Result with the first one's error.
C3_SecondOnlyAfterFirstSucceeded ==
    /\ config.Policy = PolicyVectorThenGraph =>
          /\ \A i \in DOMAIN log :
                log[i] = "graph.call" => SomeBefore({"vector.ok"}, i)
          /\ Occurs("vector.err") =>
                /\ ~Occurs("graph.call")
                /\ received.graph = <<>>
                /\ pc = "done"
                /\ ret = [result |-> <<>>, err |-> ErrVector]
    /\ (config.Policy = PolicyGraphThenVector /\ config.Graph) =>
          /\ \A i \in DOMAIN log :
                log[i] = "vector.call" => SomeBefore({"graph.ok"}, i)
          /\ Occurs("graph.err") =>
                /\ ~Occurs("vector.call")
                /\ received.vector = <<>>
                /\ pc = "done"
                /\ ret = [result |-> <<>>, err |-> ErrGraph]

\* GraphThenVector with both retrievers configured, the graph one failed
C3_Witness ==
    /\ config.Policy = PolicyGraphThenVector
    /\ config.Vector
    /\ Occurs("graph.err")
    /\ pc = "done"

\* C4: in one Retrieve call each retriever is invoked at most once, under
\* every policy and whatever the calls return.
C4_AtMostOneCallEach ==
    /\ Len(received.vector) <= 1
    /\ Len(received.graph) <= 1
    /\ Count("vector.call") <= 1
    /\ Count("graph.call") <= 1

\* the call is over, both retrievers were invoked, the vector one failed
C4_Witness ==
    /\ pc = "done"
    /\ Len(received.vector) = 1
    /\ Len(received.graph) = 1
    /\ Occurs("vector.err")

\* C5: once a retriever has returned an error, no merge, deduplication,
\* sort, top-K cut or reranker call ever happens, no item list is produced,
\* and the call returns a nil Result with an error some retriever returned
\* (at once under the sequential policies).
C5_FailFast ==
    RetrieverFailed =>
        /\ \A ev \in PostMergeEvents : ~Occurs(ev)
        /\ merged = <<>> /\ deduped = <<>> /\ sorted = <<>> /\ items = <<>>
        /\ pc # "rerank"
        /\ config.Policy # PolicyParallel => pc = "done"
        /\ pc = "done" =>
              /\ ret.result = <<>>
              /\ ret.err \in
                    {e \in {ErrVector} : Occurs("vector.err")} \cup
                    {e \in {ErrGraph} : Occurs("graph.err")}

\* a call with reranker, deduplication and a top-K cut configured has
\* returned after the graph retriever failed although the vector retriever
\* had returned items
C5_Witness ==
    /\ pc = "done"
    /\ config.Reranker /\ config.DedupByID /\ q.TopK > 0
    /\ Occurs("vector.ok") /\ Len(vectorRes.items) > 0
    /\ Occurs("graph.err")

\* C6: under VectorThenGraph, once the vector retriever has returned
\* successfully, the graph retriever has not been invoked if the vector
\* retriever returned no items, and has been invoked exactly once, after
\* the vector call returned, if it returned items and a graph retriever is
\* configured.
C6_GraphExpansionIffVectorItems ==
    (config.Policy = PolicyVectorThenGraph /\ Occurs("vector.ok")) =>
        IF Len(vectorRes.items) = 0
        THEN received.graph = <<>> /\ ~Occurs("graph.call")
        ELSE config.Graph =>
                /\ Len(received.graph) = 1
                /\ Count("graph.call") = 1
                /\ \A i \in DOMAIN log :
                      log[i] = "graph.call" => SomeBefore({"vector.ok"}, i)

\* the vector retriever returned items and the expanded call is over
C6_Witness ==
    /\ config.Policy = PolicyVectorThenGraph
    /\ config.Graph
    /\ Len(vectorRes.items) > 0
    /\ Len(received.graph) = 1
    /\ pc = "done"

\* C7: under VectorThenGraph the query the graph retriever receives has one
\* entity hint per vector item, in the same order, with ID = Name = the
\* item's identifier, in place of the caller's hints, and equals the
\* caller's query in every other field.
C7_GraphQueryHints ==
    (config.Policy = PolicyVectorThenGraph /\ received.graph # <<>>) =>
        LET gq == received.graph[1]
        IN  /\ DOMAIN gq = DOMAIN q
            /\ \A f \in DOMAIN q \ {"Entities"} : gq[f] = q[f]
            /\ Len(gq.Entities) = Len(vectorRes.items)
            /\ \A i \in DOMAIN vectorRes.items :
                  /\ gq.Entities[i].ID = vectorRes.items[i].ID
                  /\ gq.Entities[i].Name = vectorRes.items[i].ID

\* the graph retriever was invoked after the vector retriever returned two
\* items with different identifiers
C7_Witness ==
    /\ config.Policy = PolicyVectorThenGraph
    /\ received.graph # <<>>
    /\ q.Entities # <<>>
    /\ Len(vectorRes.items) = 2
    /\ vectorRes.items[1].ID = "y"
    /\ vectorRes.items[2].ID = "x"

C9_FusedScore ==
    Occurs("merge") =>
        \A id \in IDs :
            LET nv == Occurrences(vectorRes.items, id)
                ng == Occurrences(graphRes.items, id)
                expected ==
                    (IF nv = 1
                     THEN ScoreOf(vectorRes.items, id) * config.Weights.Vector
                     ELSE 0)
                    + (IF ng = 1
                       THEN ScoreOf(graphRes.items, id) * config.Weights.Graph
                       ELSE 0)
            IN  (nv <= 1 /\ ng <= 1 /\ nv + ng >= 1) =>
                    /\ Occurrences(merged, id) = 1
                    /\ ScoreOf(merged, id) = expected

\* the spec's example shape: x in both results (0.8 and 0.6), y in the graph
\* result only, under the default weights: x scores 0.72 and y 0.24
C9_Witness ==
    /\ Occurs("merge")
    /\ Occurrences(vectorRes.items, "x") = 1
    /\ Occurrences(graphRes.items, "x") = 1
    /\ Occurrences(vectorRes.items, "y") = 0
    /\ Occurrences(graphRes.items, "y") = 1
    /\ ScoreOf(vectorRes.items, "x") = 8
    /\ ScoreOf(merged, "x") = 72
    /\ ScoreOf(merged, "y") = 24

\* C10: with DedupByID set (and no reranker) no two items of the returned
\* Result share an identifier, and an identifier that occurs several times
\* in one retriever's result list (and not in the other's) survives with
\* the maximum score among those duplicates, weighted by that source's
\* weight.
C10_DedupKeepsMaxOfDuplicates ==
    (config.DedupByID /\ ~config.Reranker /\ ret.result # <<>>) =>
        LET its == ret.result[1].Items
        IN  /\ \A i, j \in DOMAIN its : i # j => its[i].ID # its[j].ID
            /\ \A k \in DOMAIN its :
                  LET id == its[k].ID
                  IN  /\ (Occurrences(vectorRes.items, id) > 1
                            /\ Occurrences(graphRes.items, id) = 0) =>
                         its[k].Score =
                            MaxScore(vectorRes.items, id) * config.Weights.Vector
                      /\ (Occurrences(graphRes.items, id) > 1
                            /\ Occurrences(vectorRes.items, id) = 0) =>
                         its[k].Score =
                            MaxScore(graphRes.items, id) * config.Weights.Graph

\* the one-to-one maps from the positions of `its` into those of `from`
Selections(its, from) ==
    {f \in [DOMAIN its -> DOMAIN from] :
        \A i, j \in DOMAIN its : i # j => f[i] # f[j]}

NonIncreasing(its) ==
    \A i, j \in DOMAIN its : i < j => its[i].Score >= its[j].Score

Mentions(modes, m) == \E i \in DOMAIN modes : modes[i] = m

IDsOf(its) == {its[i].ID : i \in DOMAIN its}

\* C11: with no reranker and TopK = k > 0 a returned Result has
\* min(k, number of post-dedup items) items, they are items of the
\* post-dedup list, and every item of that list that was dropped scores no
\* higher than any returned one; with TopK <= 0 the Result has every
\* post-dedup item.
C11_TopKKeepsHighest ==
    (~config.Reranker /\ ret.result # <<>>) =>
        LET its == ret.result[1].Items
            n == Len(deduped)
        IN  /\ Len(its) = (IF q.TopK > 0 /\ q.TopK < n THEN q.TopK ELSE n)
            /\ \E f \in Selections(its, deduped) :
                  /\ \A i \in DOMAIN its : its[i] = deduped[f[i]]
                  /\ \A j \in DOMAIN deduped :
                        (\A i \in DOMAIN its : f[i] # j) =>
                            \A i \in DOMAIN its :
                                its[i].Score >= deduped[j].Score

\* TopK = 1 cuts a post-dedup list of two items with different scores
C11_Witness ==
    /\ ~config.Reranker
    /\ ret.result # <<>>
    /\ q.TopK = 1
    /\ Len(deduped) = 2
    /\ deduped[1].Score # deduped[2].Score
    /\ Len(ret.result[1].Items) = 1

\* C12: with neither retriever configured the Parallel policy fails on no
\* retriever and merges nothing: the item list is empty, modesUsed is
\* exactly "hybrid" and totalCandidates is 0; and Retrieve returns a Result
\* with these values and no error (unless a configured reranker fails).
C12_BothAbsentParallel ==
    (config.Policy = PolicyParallel /\ ~config.Vector /\ ~config.Graph) =>
        /\ ~RetrieverFailed
        /\ pc \in {"rerank", "done"} =>
              /\ Occurs("merge")
              /\ merged = <<>>
              /\ items = <<>>
              /\ modesUsed = <<ModeHybrid>>
              /\ totalCandidates = 0
        /\ (pc = "done" /\ ~Occurs("rerank.err")) =>
              /\ ret.err = NoErr
              /\ ret.result # <<>>
              /\ ret.result[1].Items = <<>>
              /\ ret.result[1].Metadata.ModesUsed = <<ModeHybrid>>
              /\ ret.result[1].Metadata.TotalCandidates = 0

C12_Witness ==
    /\ config.Policy = PolicyParallel
    /\ ~config.Vector
    /\ ~config.Graph
    /\ Occurs("vector.absent")
    /\ Occurs("graph.absent")
    /\ pc = "done"
    /\ ret.result # <<>>

\* C13: with no reranker the items of a returned Result are in
\* non-increasing score order, whatever the policy.
C13_SortedByScore ==
    (~config.Reranker /\ ret.result # <<>>) =>
        NonIncreasing(ret.result[1].Items)

\* a Result of two items with different scores
C13_Witness ==
    /\ ~config.Reranker
    /\ ret.result # <<>>
    /\ Len(ret.result[1].Items) = 2
    /\ ret.result[1].Items[1].Score > ret.result[1].Items[2].Score

\* C14: the modesUsed of a returned Result mentions "hybrid", and mentions
\* "vector" (resp. "graph") only when the vector (resp. graph) retriever
\* was called in this Retrieve and returned without error.
C14_ModesOnlyOfSuccessfulCalls ==
    ret.result # <<>> =>
        LET modes == ret.result[1].Metadata.ModesUsed
        IN  /\ Mentions(modes, ModeHybrid)
            /\ Mentions(modes, ModeVector) =>
                  (Occurs("vector.call") /\ Occurs("vector.ok"))
            /\ Mentions(modes, ModeGraph) =>
                  (Occurs("graph.call") /\ Occurs("graph.ok"))

\* both retrievers are configured, only the vector retriever was called
\* (it found nothing to expand), and the Result says so
C14_Witness ==
    /\ ret.result # <<>>
    /\ config.Vector
    /\ config.Graph
    /\ ~Occurs("graph.call")
    /\ Mentions(ret.result[1].Metadata.ModesUsed, ModeVector)
    /\ ~Mentions(ret.result[1].Metadata.ModesUsed, ModeGraph)

\* C15: the totalCandidates of a returned Result is the sum of the
\* TotalCandidates reported by the retrievers that were called in this
\* Retrieve; a retriever that is absent or was skipped adds nothing.
C15_TotalCandidatesOfInvoked ==
    ret.result # <<>> =>
        ret.result[1].Metadata.TotalCandidates =
            (IF Occurs("vector.call") THEN vectorRes.count ELSE 0)
            + (IF Occurs("graph.call") THEN graphRes.count ELSE 0)

\* graph first, then vector: both report candidates and the Result adds
\* them up
C15_Witness ==
    /\ ret.result # <<>>
    /\ config.Policy = PolicyGraphThenVector
    /\ Occurs("graph.ok")
    /\ Occurs("vector.ok")
    /\ graphRes.count > 0
    /\ vectorRes.count > 0
    /\ ret.result[1].Metadata.TotalCandidates = graphRes.count + vectorRes.count

\* C16: after the merge every merged item has Provenance.Mode "hybrid",
\* and the merged items carry exactly the identifiers of the vector and
\* graph items that went in, one item per identifier.
C16_MergedAreHybrid ==
    Occurs("merge") =>
        /\ \A i \in DOMAIN merged : merged[i].Provenance.Mode = ModeHybrid
        /\ IDsOf(merged) = IDsOf(vectorRes.items) \cup IDsOf(graphRes.items)
        /\ Len(merged) = Cardinality(IDsOf(merged))

\* x came from both retrievers and y from the graph retriever only
C16_Witness ==
    /\ Occurs("merge")
    /\ IDsOf(vectorRes.items) = {"x"}
    /\ IDsOf(graphRes.items) = {"x", "y"}
    /\ Len(merged) = 2
    /\ \A i \in DOMAIN vectorRes.items :
          vectorRes.items[i].Provenance.Mode = ModeVector
    /\ \A i \in DOMAIN graphRes.items :
          graphRes.items[i].Provenance.Mode = ModeGraph

\* the first TopK items of `its` when TopK is positive, else all of them
Truncated(its) ==
    [i \in 1..(IF q.TopK > 0 /\ q.TopK < Len(its) THEN q.TopK ELSE Len(its))
        |-> its[i]]

\* C17: with a reranker configured and no retriever failing, the reranker
\* is called exactly once, after the merge, the sort and the top-K cut,
\* with the query and the sorted list cut to TopK (so with at most TopK
\* items when TopK > 0); when it returns a list the Result's items are
\* that list, and when it returns an error Retrieve returns no Result and
\* that error.  With no reranker configured it is never called.
C17_RerankerOnceOnTruncated ==
    /\ ~config.Reranker => (reranker.calls = <<>> /\ ~Occurs("rerank.call"))
    /\ Len(reranker.calls) <= 1
    /\ (config.Reranker /\ ~RetrieverFailed /\ pc \in {"rerank", "done"}) =>
          /\ Len(reranker.calls) = 1
          /\ Count("rerank.call") = 1
          /\ Occurs("merge")
          /\ Occurs("sort")
          /\ \A i, j \in DOMAIN log :
                (log[i] = "rerank.call"
                    /\ log[j] \in {"merge", "dedup", "sort", "topk"}) => j < i
          /\ reranker.calls[1].q = q
          /\ reranker.calls[1].items = Truncated(sorted)
          /\ q.TopK > 0 => Len(reranker.calls[1].items) <= q.TopK
    /\ (config.Reranker /\ ~RetrieverFailed /\ pc = "done") =>
          /\ Len(reranker.returns) = 1
          /\ IF reranker.returns[1].err # NoErr
             THEN ret = [result |-> <<>>, err |-> reranker.returns[1].err]
             ELSE /\ ret.err = NoErr
                  /\ ret.result # <<>>
                  /\ ret.result[1].Items = reranker.returns[1].items

\* two sorted items are cut to one, and the reranker hands back a list
\* that differs from the one it was given
C17_Witness ==
    /\ config.Reranker
    /\ pc = "done"
    /\ q.TopK = 1
    /\ Len(sorted) = 2
    /\ Len(reranker.calls) = 1
    /\ Len(reranker.calls[1].items) = 1
    /\ Len(reranker.returns) = 1
    /\ reranker.returns[1].err = NoErr
    /\ reranker.returns[1].items # reranker.calls[1].items
    /\ ret.result # <<>>
    /\ ret.result[1].Items = reranker.returns[1].items

\* ------------------------------------------------ graph-side properties

AllEdges(g) == UNION {{g.edges[id][i] : i \in DOMAIN g.edges[id]} : id \in NodeIDs}

\* the ids that lie within n hops of a start node, along stored edges
RECURSIVE WithinHops(_, _, _)
WithinHops(g, starts, n) ==
    IF n <= 0 THEN starts
    ELSE LET near == WithinHops(g, starts, n - 1)
         IN  near \cup {e.To : e \in {x \in AllEdges(g) : x.From \in near}}

StartsOf(args) == {args.startNodes[i] : i \in DOMAIN args.startNodes}

NodeIDsOf(result) == {result.Nodes[i].ID : i \in DOMAIN result.Nodes}

\* C18: a traversal with Depth = d returns no node that lies more than d
\* hops (along stored edges) from every start node, and every path it
\* records has at most d hops, that is at most d + 1 node ids.
C18_DepthBound ==
    traversal # <<>> =>
        LET args == traverseArgs[1]
            result == traversal[1]
            d == args.opts.Depth
        IN  /\ NodeIDsOf(result) \subseteq WithinHops(kg, StartsOf(args), d)
            /\ \A id \in DOMAIN result.Paths :
                  /\ Len(result.Paths[id]) - 1 <= d
                  /\ Len(result.Paths[id]) <= d + 1

\* the shape of TestGraphRetrieverDepthLimit: c is two hops from a and the
\* traversal from a with Depth 1 returns a and b only
C18_Witness ==
    /\ traversal # <<>>
    /\ traverseArgs[1].startNodes = <<"a">>
    /\ traverseArgs[1].opts.Depth = 1
    /\ traverseArgs[1].opts.MaxNodes = 3
    /\ traverseArgs[1].opts.EdgeTypes = <<>>
    /\ traverseArgs[1].opts.NodeTypes = <<>>
    /\ traverseArgs[1].opts.MinWeight = 0
    /\ DOMAIN kg.nodes = NodeIDs
    /\ "c" \notin WithinHops(kg, {"a"}, 1)
    /\ "c" \in WithinHops(kg, {"a"}, 2)
    /\ NodeIDsOf(traversal[1]) = {"a", "b"}

\* the weights of the stored edges from u to v that pass the traversal's
\* filters: the edges a hop from u to v can have used
HopWeights(g, opts, u, v) ==
    {e.Weight : e \in {x \in AllEdges(g) :
                          x.From = u /\ x.To = v /\ PassesEdgeFilters(opts, x)}}

\* the numerators num (of num / 100^hops) the score of a path can have when
\* every hop counts weight * 0.8 for an edge it can have used, and
\* 0.5 * 0.8 only where no such edge exists
RECURSIVE ClaimedScores(_, _, _, _)
ClaimedScores(g, opts, path, i) ==
    IF i > Len(path) - 1 THEN {1}
    ELSE LET ws == HopWeights(g, opts, path[i], path[i + 1])
             hop == IF ws = {} THEN {DefaultEdgeWeight} ELSE ws
         IN  {(w * DecayFactor) * r :
                w \in hop, r \in ClaimedScores(g, opts, path, i + 1)}

\* C19: in the Result of the graph retriever an item whose path is the
\* start node alone has score 1.0, and an item reached over hops has the
\* product of weight * 0.8 over the edges its hops used, 0.5 standing in
\* only for a hop with no edge to be found; this for every graph, with
\* edges of weight 0 and with several edges between the same two nodes.
C19_PathScore ==
    (graphResult # <<>> /\ traversal # <<>>) =>
        LET its == graphResult[1].Items
        IN  \A i \in DOMAIN its :
                LET path == its[i].Provenance.GraphPath
                IN  /\ its[i].Score.hops = Len(path) - 1
                    /\ Len(path) = 1 => its[i].Score.num = 1
                    /\ its[i].Score.num \in
                          ClaimedScores(kg, traverseArgs[1].opts, path, 1)

\* C20: a TraversalResult never holds more than MaxNodes nodes, and with
\* MaxNodes = 0 it holds no node, no edge and no path.
C20_NodeCeiling ==
    traversal # <<>> =>
        LET opts == traverseArgs[1].opts
            result == traversal[1]
        IN  /\ Len(result.Nodes) <= opts.MaxNodes
            /\ opts.MaxNodes = 0 =>
                  /\ result.Nodes = <<>>
                  /\ result.Edges = <<>>
                  /\ DOMAIN result.Paths = {}

\* three nodes lie within reach and pass every filter, MaxNodes is 2 and
\* the result holds two nodes
C20_Witness ==
    /\ traversal # <<>>
    /\ traverseArgs[1].opts.MaxNodes = 2
    /\ traverseArgs[1].opts.Depth = 2
    /\ traverseArgs[1].opts.EdgeTypes = <<>>
    /\ traverseArgs[1].opts.NodeTypes = <<>>
    /\ traverseArgs[1].opts.MinWeight = 0
    /\ traverseArgs[1].startNodes = <<"a">>
    /\ DOMAIN kg.nodes = NodeIDs
    /\ WithinHops(kg, {"a"}, 2) = NodeIDs
    /\ Len(traversal[1].Nodes) = 2

\* the first queue item Traverse took for this id
FirstDequeued(id) ==
    dequeued[CHOOSE k \in DOMAIN dequeued :
                /\ dequeued[k].nodeID = id
                /\ \A l \in 1..(k - 1) : dequeued[l].nodeID # id]

\* C21: in a TraversalResult no node occurs twice in the node list, the
\* keys of the path map are exactly the ids of the listed nodes, and the
\* path of a node is the path of the first queue item dequeued for it.
C21_OnePathPerNode ==
    traversal # <<>> =>
        LET result == traversal[1]
        IN  /\ \A i, j \in DOMAIN result.Nodes :
                  i # j => result.Nodes[i].ID # result.Nodes[j].ID
            /\ DOMAIN result.Paths = NodeIDsOf(result)
            /\ \A id \in DOMAIN result.Paths :
                  /\ \E k \in DOMAIN dequeued : dequeued[k].nodeID = id
                  /\ result.Paths[id] = FirstDequeued(id).path

\* c was taken from the queue twice, with different paths, and the result
\* lists it once with the first of them
C21_Witness ==
    /\ traversal # <<>>
    /\ "c" \in DOMAIN traversal[1].Paths
    /\ \E k, l \in DOMAIN dequeued :
          /\ k < l
          /\ dequeued[k].nodeID = "c"
          /\ dequeued[l].nodeID = "c"
          /\ dequeued[k].path # dequeued[l].path
          /\ traversal[1].Paths["c"] = dequeued[k].path

\* the edge passes the edgeTypes and minWeight filters of the options
Allowed(opts, e) ==
    /\ opts.EdgeTypes # <<>> => \E i \in DOMAIN opts.EdgeTypes : opts.EdgeTypes[i] = e.Type
    /\ e.Weight >= opts.MinWeight

\* the ids within n hops of s along allowed edges, no hop leaving a node
\* of `blocked`
RECURSIVE Within(_, _, _, _, _)
Within(g, opts, s, n, blocked) ==
    IF n <= 0 THEN {s}
    ELSE LET near == Within(g, opts, s, n - 1, blocked)
         IN  near \cup {e.To : e \in {x \in AllEdges(g) :
                                         /\ x.From \in near \ blocked
                                         /\ Allowed(opts, x)}}

\* stands for no path at all: more hops than any path without a repeated node
Unreachable == Cardinality(NodeIDs) + 1

\* hops of a shortest such path from s to v
Distance(g, opts, s, v, blocked) ==
    LET ns == {n \in 0..Cardinality(NodeIDs) : v \in Within(g, opts, s, n, blocked)}
    IN  IF ns = {} THEN Unreachable
        ELSE CHOOSE n \in ns : \A m \in ns : n <= m

\* the start nodes: the entries of the start list that the graph holds
PresentStarts(g, args) ==
    SelectSeq(args.startNodes, LAMBDA id : id \in DOMAIN g.nodes)

\* every recorded path is a shortest one from the start nodes, and begins
\* at the earliest start node at that distance
ShortestPaths(g, args, result, blocked) ==
    LET starts == PresentStarts(g, args)
    IN  \A v \in DOMAIN result.Paths :
            LET p == result.Paths[v]
                dist(i) == Distance(g, args.opts, starts[i], v, blocked)
            IN  /\ \E i \in DOMAIN starts : dist(i) # Unreachable
                /\ \A i \in DOMAIN starts : Len(p) - 1 <= dist(i)
                /\ \E i \in DOMAIN starts :
                      /\ starts[i] = p[1]
                      /\ dist(i) = Len(p) - 1
                      /\ \A j \in 1..(i - 1) : dist(j) > Len(p) - 1

\* the nodes the nodeTypes filter drops
ExcludedNodes(g, opts) ==
    {id \in DOMAIN g.nodes :
        /\ opts.NodeTypes # <<>>
        /\ \A i \in DOMAIN opts.NodeTypes : opts.NodeTypes[i] # g.nodes[id].Type}

\* C22 as stated: the path recorded for a reached node has the least hop
\* count over all paths from any start node along edges that pass the
\* edgeTypes and minWeight filters, and begins at the earliest start node
\* among those at that distance.
C22_ShortestOverFilteredEdges ==
    traversal # <<>> =>
        ShortestPaths(kg, traverseArgs[1], traversal[1], {})

\* C22 amended: the same, over the paths that also leave no node that the
\* nodeTypes filter drops (such a node is never expanded, start node or
\* not).
C22_ShortestOverExpandedNodes ==
    traversal # <<>> =>
        ShortestPaths(kg, traverseArgs[1], traversal[1],
                      ExcludedNodes(kg, traverseArgs[1].opts))

\* c is one hop from both start nodes and two hops from a over b; its
\* path is the one hop from a, the first start node
C22_Witness ==
    /\ traversal # <<>>
    /\ traverseArgs[1].startNodes = <<"a", "b">>
    /\ DOMAIN kg.nodes = NodeIDs
    /\ Len(kg.edges["a"]) = 3
    /\ Len(kg.edges["b"]) = 1
    /\ traverseArgs[1].opts.EdgeTypes = <<>>
    /\ traverseArgs[1].opts.MinWeight = 0
    /\ traverseArgs[1].opts.NodeTypes = <<>>
    /\ "c" \in DOMAIN traversal[1].Paths
    /\ traversal[1].Paths["c"] = <<"a", "c">>

\* the hops (u, v) of a path
HopsOf(p) == {<<p[i], p[i + 1]>> : i \in 1..(Len(p) - 1)}

\* C23: every edge in the traversed-edge list is a stored edge that passes
\* the edgeTypes filter (when one is set) and has weight >= minWeight, and
\* every hop (u, v) of a recorded path runs along such a stored edge from
\* u to v, never along an edge from v to u alone.
C23_OnlyAllowedDirectedEdges ==
    traversal # <<>> =>
        LET opts == traverseArgs[1].opts
            result == traversal[1]
        IN  /\ \A i \in DOMAIN result.Edges :
                  /\ result.Edges[i] \in AllEdges(kg)
                  /\ Allowed(opts, result.Edges[i])
            /\ \A id \in DOMAIN result.Paths :
                  \A h \in HopsOf(result.Paths[id]) :
                      \E e \in AllEdges(kg) :
                          /\ e.From = h[1]
                          /\ e.To = h[2]
                          /\ Allowed(opts, e)

\* the shape of TestGraphRetrieverEdgeTypeFilter: from a only relates_to
\* edges are followed, so b is reached and c, behind a part_of edge, is
\* not; nor is the edge from c to a followed backwards
C23_Witness ==
    /\ traversal # <<>>
    /\ traverseArgs[1].startNodes = <<"a">>
    /\ traverseArgs[1].opts.EdgeTypes = <<"relates_to">>
    /\ traverseArgs[1].opts.NodeTypes = <<>>
    /\ traverseArgs[1].opts.Depth = 2
    /\ traverseArgs[1].opts.MaxNodes = 3
    /\ DOMAIN kg.nodes = NodeIDs
    /\ Len(kg.edges["a"]) = 3
    /\ kg.edges["b"] = <<>>
    /\ Len(kg.edges["c"]) = 1
    /\ NodeIDsOf(traversal[1]) = {"a", "b"}
    /\ Len(traversal[1].Edges) = 1

\* C24: with a nodeTypes filter set, every node of the TraversalResult has
\* a listed type, and a node of the graph whose type is not listed is
\* never expanded: no traversed edge leaves it and no recorded path
\* contains it.
C24_ExcludedNodesNotExpanded ==
    (traversal # <<>> /\ traverseArgs[1].opts.NodeTypes # <<>>) =>
        LET opts == traverseArgs[1].opts
            result == traversal[1]
        IN  /\ \A i \in DOMAIN result.Nodes :
                  \E k \in DOMAIN opts.NodeTypes :
                      opts.NodeTypes[k] = result.Nodes[i].Type
            /\ \A x \in ExcludedNodes(kg, opts) :
                  /\ \A i \in DOMAIN result.Edges : result.Edges[i].From # x
                  /\ \A id \in DOMAIN result.Paths :
                        \A k \in DOMAIN result.Paths[id] :
                            result.Paths[id][k] # x

\* b (a document) is reached twice from a while only concepts are asked
\* for; c lies behind b only and is not reached
C24_Witness ==
    /\ traversal # <<>>
    /\ traverseArgs[1].startNodes = <<"a">>
    /\ traverseArgs[1].opts.NodeTypes = <<"concept">>
    /\ traverseArgs[1].opts.EdgeTypes = <<>>
    /\ traverseArgs[1].opts.MinWeight = 0
    /\ traverseArgs[1].opts.Depth = 2
    /\ traverseArgs[1].opts.MaxNodes = 3
    /\ DOMAIN kg.nodes = NodeIDs
    /\ Len(kg.edges["a"]) = 2
    /\ Len(kg.edges["b"]) = 1
    /\ Len(traversal[1].Edges) = 2
    /\ \A i \in DOMAIN traversal[1].Edges : traversal[1].Edges[i].To = "b"
    /\ NodeIDsOf(traversal[1]) = {"a"}

EmptyTraversal == [Nodes |-> <<>>, Edges |-> <<>>, Paths |-> [i \in {} |-> <<>>]]

\* C25: a Traverse call whose start list is empty or names no node of the
\* graph returns the empty TraversalResult and a nil error; a Retrieve
\* call of the graph retriever that finds no start node (no entity hint
\* and no node found), or only start ids the graph does not hold, returns
\* a Result with no items and a nil error.
C25_NoStartNodeGivesEmptyResult ==
    /\ (traversal # <<>>
          /\ \A i \in DOMAIN traverseArgs[1].startNodes :
                traverseArgs[1].startNodes[i] \notin DOMAIN kg.nodes) =>
            /\ traversal[1] = EmptyTraversal
            /\ gerr = <<NoErr>>
    /\ (gop = "Retrieve"
          /\ (traverseArgs = <<>>
                \/ \A i \in DOMAIN traverseArgs[1].startNodes :
                      traverseArgs[1].startNodes[i] \notin DOMAIN kg.nodes)) =>
            /\ graphResult # <<>>
            /\ graphResult[1].Items = <<>>
            /\ gerr = <<NoErr>>
    /\ (gop = "Retrieve" /\ traverseArgs = <<>>) =>
            /\ HintedNodes(graphQuery[1].Entities) = <<>>
            /\ graphResult[1].Metadata.TotalCandidates = 0

\* the start list names b only, the graph does not hold b but stores an
\* edge leaving it, and the traversal returns nothing
C25_Witness ==
    /\ gop = "Traverse"
    /\ traverseArgs[1].startNodes = <<"b">>
    /\ "b" \notin DOMAIN kg.nodes
    /\ "c" \in DOMAIN kg.nodes
    /\ Len(kg.edges["b"]) = 1
    /\ traverseArgs[1].opts.Depth = 2
    /\ traverseArgs[1].opts.MaxNodes = 3
    /\ traverseArgs[1].opts.EdgeTypes = <<>>
    /\ traverseArgs[1].opts.NodeTypes = <<>>
    /\ traverseArgs[1].opts.MinWeight = 0
    /\ traversal[1] = EmptyTraversal

\* ---------------------------------------------------------------- C26

\* whether r is something a goroutine of retrieveParallel can send when
\* its retriever returns items of the set `its` or fails with err:
\* result{}, result{err: err} or result{items, count}
SentBy(r, its, err) ==
    \/ r = EmptyResult
    \/ r = [items |-> <<>>, count |-> 0, err |-> err]
    \/ /\ r.err = NoErr
       /\ \A i \in DOMAIN r.items : r.items[i] \in its
       /\ r.count = Len(r.items) + 1

\* each goroutine wrote to its own channel only: whatever is in, or was
\* received from, vectorCh is an outcome of the vector goroutine, and
\* likewise for graphCh; no channel ever holds more than one outcome
OwnChannels ==
    /\ Len(vectorCh) <= 1 /\ Len(graphCh) <= 1
    /\ \A i \in DOMAIN vectorCh : SentBy(vectorCh[i], VectorItems, ErrVector)
    /\ \A i \in DOMAIN graphCh : SentBy(graphCh[i], GraphItems, ErrGraph)
    /\ SentBy(vectorRes, VectorItems, ErrVector)
    /\ SentBy(graphRes, GraphItems, ErrGraph)
    /\ (vpc # "done") => vectorCh = <<>>
    /\ (gpc # "done") => graphCh = <<>>

\* the positions of retrieveParallel after `vectorRes := <-vectorCh`
PastRecvVector == pc \notin {"idle", "recv_vector"}

\* the positions of retrieveParallel after `graphRes := <-graphCh`
PastRecvGraph == pc \notin {"idle", "recv_vector", "recv_graph"}

\* C26: under the Parallel policy each retriever call writes its outcome
\* to its own distinct result channel, and neither result channel is read
\* by the orchestrator until both retriever calls have completed.
C26_ChannelsReadAfterBoth ==
    config.Policy = PolicyParallel =>
        /\ OwnChannels
        /\ PastRecvVector => (vpc = "done" /\ gpc = "done")

\* C26 as the code has it: each retriever call writes its outcome to its
\* own distinct result channel; the orchestrator reads the vector channel
\* once the vector call has completed, whether or not the graph call has,
\* and the graph channel once the graph call has completed, so that both
\* outcomes are in hand only after both calls have completed.
C26_ChannelReadAfterOwnCall ==
    config.Policy = PolicyParallel =>
        /\ OwnChannels
        /\ PastRecvVector => vpc = "done"
        /\ PastRecvGraph => (vpc = "done" /\ gpc = "done")
        /\ (pc \in {"idle", "recv_vector"}) => vectorRes = EmptyResult
        /\ (~PastRecvGraph) => graphRes = EmptyResult

\* the vector channel has been read, with items in the outcome, while the
\* graph retriever call is still running
C26_Witness ==
    /\ config.Policy = PolicyParallel
    /\ pc = "recv_graph"
    /\ vpc = "done"
    /\ gpc = "calling"
    /\ Len(vectorRes.items) > 0
    /\ vectorCh = <<>>

\* ---------------------------------------------------------------- C30

SendsOnceUnblocked ==
    /\ (vpc \in {"started", "calling"}) =>
          (vectorCh = <<>> /\ \A ev \in VectorFinished : ~Occurs(ev))
    /\ (gpc \in {"started", "calling"}) =>
          (graphCh = <<>> /\ \A ev \in GraphFinished : ~Occurs(ev))
    /\ vpc = "done" =>
          /\ Cardinality({i \in DOMAIN log : log[i] \in VectorFinished}) = 1
          /\ Len(vectorCh) = (IF pc = "recv_vector" THEN 1 ELSE 0)
    /\ gpc = "done" =>
          /\ Cardinality({i \in DOMAIN log : log[i] \in GraphFinished}) = 1
          /\ Len(graphCh) = (IF pc \in {"recv_vector", "recv_graph"} THEN 1 ELSE 0)

\* Retrieve has returned and both goroutines have ended, nothing left in
\* either channel
ParallelOver ==
    /\ pc = "done"
    /\ vpc = "done" /\ gpc = "done"
    /\ vectorCh = <<>> /\ graphCh = <<>>
    /\ ret.err # NoErr \/ ret.result # <<>>

\* C29: under the Parallel policy, when every call that was entered
\* returns, a Retrieve call that has started its two goroutines eventually
\* returns with both goroutines ended; each goroutine sends exactly one
\* outcome on its own channel and its send never blocks, whatever the
\* interleaving, whether calls fail or a retriever is absent.
C29_ParallelTerminates ==
    /\ []SendsOnceUnblocked
    /\ (pc = "recv_vector") ~> ParallelOver

\* the call is over after both retrievers failed
C29_Witness ==
    /\ ParallelOver
    /\ Occurs("vector.err")
    /\ Occurs("graph.err")

\* ---------------------------------------------------------------- C27

\* the Export calls made by the OnRetrieveEnd that is entry k of olog
ExportRound(k) == SelectSeq(exports, LAMBDA c : c.at = k)

\* the entries of olog at which OnRetrieveEnd exported a trace
ExportingEnds == {k \in DOMAIN olog : olog[k].exported}

\* C27: when an exporter returns an error during OnRetrieveEnd, the call
\* still runs to its end: every exporter of the observer, those after the
\* failing one included, has been handed the same batch of spans, and once
\* the call is over the trace and the spans of the batch are gone from
\* the observer. OnRetrieveEnd has no result through which the error could
\* reach the caller; at most it is written to the logger.
C27_ExportFailureContained ==
    \A k \in ExportingEnds :
        LET round == ExportRound(k)
        IN  (\E i \in DOMAIN round : round[i].err # NoErr) =>
                /\ Len(round) = Len(exporters)
                /\ \A i \in DOMAIN round :
                      /\ round[i].exporter = exporters[i]
                      /\ round[i].spans = round[1].spans
                /\ Len(logged) <= Len(exports)
                /\ k = Len(olog) =>
                      /\ FromContext(olog[k].ctx).TraceID \notin DOMAIN traces
                      /\ \A j \in DOMAIN round[1].spans :
                            round[1].spans[j].ID \notin DOMAIN spans

\* the first of two exporters has just failed on a batch of two spans, the
\* failure went to the logger, and the second exporter has the batch too
C27_Witness ==
    /\ olog # <<>>
    /\ olog[Len(olog)].exported
    /\ Len(exporters) = 2
    /\ logger
    /\ LET round == ExportRound(Len(olog))
       IN  /\ Len(round) = 2
           /\ round[1].err = ErrExport
           /\ round[2].err = NoErr
           /\ Len(round[2].spans) = 2
    /\ logged # <<>>

\* ---------------------------------------------------------------- C28

ChildOps == {"OnVectorSearch", "OnGraphTraverse", "OnRerank"}

\* the span type each child event is recorded with
SpanTypeOf(op) ==
    CASE op = "OnVectorSearch" -> SpanTypeVectorSearch
      [] op = "OnGraphTraverse" -> SpanTypeGraphTraverse
      [] op = "OnRerank" -> SpanTypeRerank
      [] OTHER -> SpanTypeRetrieval

\* the context OnRetrieveStart returns for a root span
RootContext(id) == ToContext([TraceID |-> id, SpanID |-> id, ParentID |-> ""])

\* C28: a retrieval is started on a context without span context and
\* followed by child events reported with the returned context. Nothing is
\* exported before OnRetrieveEnd; after it, each exporter has been handed
\* exactly one batch, of 1+n spans: the retrieval span and, for each of the
\* n child events, one span of its own, all with the retrieval's trace id,
\* the children with the retrieval span as parent.
C28_OneBatchOfAllSpans ==
    (olog # <<>> /\ olog[1].op = "OnRetrieveStart" /\ olog[1].ctx = Background) =>
        LET root == olog[1].id
            n == Len(olog)
            IsChild(e) == e.op \in ChildOps /\ e.ctx = RootContext(root)
        IN  /\ (\A i \in 2..n : IsChild(olog[i])) => exports = <<>>
            /\ ( /\ n >= 2
                 /\ \A i \in 2..(n - 1) : IsChild(olog[i])
                 /\ olog[n].op = "OnRetrieveEnd"
                 /\ olog[n].ctx = RootContext(root) ) =>
                  /\ Len(exports) = Len(exporters)
                  /\ \A c \in DOMAIN exports :
                        LET batch == exports[c].spans
                        IN  /\ exports[c].exporter = exporters[c]
                            /\ Len(batch) = n - 1
                            /\ \A j \in DOMAIN batch : batch[j].TraceID = root
                            /\ Cardinality({j \in DOMAIN batch :
                                  /\ batch[j].Type = SpanTypeRetrieval
                                  /\ batch[j].ID = root
                                  /\ batch[j].ParentID = ""}) = 1
                            /\ \A i \in 2..(n - 1) :
                                  Cardinality({j \in DOMAIN batch :
                                     /\ batch[j].ID = olog[i].id
                                     /\ batch[j].Type = SpanTypeOf(olog[i].op)
                                     /\ batch[j].ParentID = root}) = 1

\* ---------------------------------------------------------------- C31

\* C31: under every policy an absent retriever is never called and never
\* the source of an error, and the other, configured retriever is still
\* called with the query as the caller gave it (its own entity hints):
\* also the graph retriever under VectorThenGraph when the vector
\* retriever is absent.
C31_AbsentRetrieverOtherContributes ==
    /\ ~config.Vector => (received.vector = <<>> /\ ret.err # ErrVector)
    /\ ~config.Graph => (received.graph = <<>> /\ ret.err # ErrGraph)
    /\ (pc = "done" /\ ~config.Vector /\ config.Graph) => received.graph = <<q>>
    /\ (pc = "done" /\ config.Vector /\ ~config.Graph) => received.vector = <<q>>

\* ---------------------------------------------------------------- C32

\* C32: when a reranker is configured and succeeds and an observer is
\* set, exactly one rerank event is reported; its inputCount is the number
\* of items handed to the reranker and its outputCount is the number of
\* items the reranker returned, also when the two differ.
C32_RerankEventCounts ==
    ( /\ config.Reranker /\ config.Observer
      /\ pc = "done"
      /\ Len(reranker.returns) = 1
      /\ reranker.returns[1].err = NoErr ) =>
        /\ Len(reranker.reported) = 1
        /\ reranker.reported[1].inputCount = Len(reranker.calls[1].items)
        /\ reranker.reported[1].outputCount = Len(reranker.returns[1].items)


\* C33: InsertBatch is atomic: when it has returned an error after the
\* transaction was begun, the transaction is rolled back or has failed to
\* commit, never left open, and the table holds the rows it held before; when
\* it has returned nil for a non-empty batch the transaction is committed and
\* every node of the batch is in the table.
C33_InsertBatchAtomic ==
    bpc = "returned" =>
        /\ (bret # NoErr /\ tx # "none") =>
               tx \in {"rolled_back", "commit_failed"}
        /\ bret # NoErr =>
               \A i \in DOMAIN copied : copied[i] \notin table
        /\ (bret = NoErr /\ Len(inserted) > 0) =>
               /\ tx = "committed"
               /\ \A i \in DOMAIN inserted : inserted[i].ID \in table


\* C34: a Traverse is atomic with respect to concurrent AddNode, AddEdge,
\* UpsertEdge, DeleteNode and DeleteEdge calls: the result it returned is
\* the traversal of one graph that a completed mutation (or the start) left
\* and that existed while the call held the lock, never of a graph with a
\* mutation half applied; no reader holds the lock while a writer does, and
\* the lock counts every Traverse in progress as a reader, so that readers
\* do not keep each other out.
C34_TraverseAtomic ==
    /\ mu.writer => mu.readers = 0
    /\ mu.readers = Cardinality({t \in Traversers : tpc[t] \in {"start", "loop"}})
    /\ \A t \in Traversers :
          /\ tpc[t] \in {"start", "loop"} => kg = graphs[tcall[t].from]
          /\ tpc[t] = "returned" =>
                \E k \in tcall[t].from .. tcall[t].to :
                    tresult[t] = <<Traverse(graphs[k], tcall[t].args.startNodes,
                                            tcall[t].args.opts)>>

\* after a mutation two Traverse calls hold the read lock together, each with
\* nodes collected
C34_Witness ==
    /\ mu.readers = 2
    /\ Len(graphs) > 1
    /\ \A t \in Traversers : tpc[t] = "loop" /\ tlocals[t].resultNodes # <<>>


\* C35: after any sequence of AddNode, AddEdge, UpsertEdge, DeleteNode and
\* DeleteEdge followed by a Traverse, every recorded path starts at a
\* requested start node, ends at the node it is recorded for, and is
\* prefix-closed: every id on it is a node of the result, and the path
\* without its last element is the recorded path of the node before it.
C35_PathsPrefixClosed ==
    \A t \in Traversers :
        tpc[t] = "returned" =>
            LET result == tresult[t][1]
                startNodes == tcall[t].args.startNodes
            IN  \A id \in DOMAIN result.Paths :
                    LET path == result.Paths[id]
                    IN  /\ Len(path) >= 1
                        /\ containsString(startNodes, path[1])
                        /\ path[Len(path)] = id
                        /\ \A i \in DOMAIN path : path[i] \in NodeIDsOf(result)
                        /\ Len(path) > 1 =>
                              /\ path[Len(path) - 1] \in DOMAIN result.Paths
                              /\ result.Paths[path[Len(path) - 1]] =
                                    SubSeq(path, 1, Len(path) - 1)


\* C36: whatever DedupByID is, the list before the top-K cut holds each
\* identifier exactly once and its identifiers are those returned by the
\* retrievers that were invoked; deduplicate leaves the merged list as it
\* is, so the list, identifiers and scores, is the one the other setting of
\* DedupByID gives.
C36_DedupChangesNothing ==
    Occurs("merge") =>
        /\ \A i, j \in DOMAIN sorted : i # j => sorted[i].ID # sorted[j].ID
        /\ IDsOf(sorted) = IDsOf(vectorRes.items) \cup IDsOf(graphRes.items)
        /\ deduplicate(merged) = merged
        /\ deduped = merged
        /\ \A i \in DOMAIN sorted :
              /\ Occurrences(merged, sorted[i].ID) = 1
              /\ sorted[i].Score = ScoreOf(merged, sorted[i].ID)

\* without DedupByID, x came back from both retrievers and twice from the
\* vector retriever, and the list before the cut holds x once
C36_Witness ==
    /\ Occurs("merge")
    /\ ~config.DedupByID
    /\ Occurrences(vectorRes.items, "x") = 2
    /\ Occurrences(graphRes.items, "x") >= 1
    /\ Occurrences(sorted, "x") = 1


\* the trace an observer call belongs to: the one of its context, or for an
\* OnRetrieveStart on a context without span context the new one
TraceOf(ev) ==
    IF HasSpanContext(ev.ctx) THEN FromContext(ev.ctx).TraceID ELSE ev.id

\* the OnRetrieveEnd calls made for the span with this id, as olog indexes
EndsOf(id) ==
    {j \in DOMAIN olog : /\ olog[j].op = "OnRetrieveEnd"
                         /\ FromContext(olog[j].ctx).SpanID = id}

\* C37: whenever a retrieval span is handed to an exporter, the
\* OnRetrieveEnd of that very span has been processed by then: the span
\* carries an end time, and when that OnRetrieveEnd had a non-nil error the
\* span has status error and a non-empty message; nested retrievals of one
\* trace included.
C37_ExportedRetrievalSpanEnded ==
    \A c \in DOMAIN exports :
        \A k \in DOMAIN exports[c].spans :
            LET span == exports[c].spans[k]
            IN  span.Type = SpanTypeRetrieval =>
                    /\ span.EndTime # ZeroTime
                    /\ \E j \in EndsOf(span.ID) :
                          /\ j <= exports[c].at
                          /\ olog[j].err # NoErr =>
                                /\ span.Status = SpanStatusError
                                /\ span.Error # ""

\* the OnRetrieveStart calls of a trace, as olog indexes
RetrievalsOf(trace) ==
    {i \in DOMAIN olog : /\ olog[i].op = "OnRetrieveStart"
                         /\ TraceOf(olog[i]) = trace}

\* how often the span with this id was handed to the exporter
TimesExported(id, exporter) ==
    Cardinality({ck \in UNION {{<<c, k>> : k \in DOMAIN exports[c].spans} :
                                  c \in DOMAIN exports} :
                    /\ exports[ck[1]].exporter = exporter
                    /\ exports[ck[1]].spans[ck[2]].ID = id})

\* C38: once OnRetrieveEnd has been called for every OnRetrieveStart of a
\* trace, the observer holds no span and no trace entry of that trace, and
\* every span recorded for the trace has been handed to every exporter
\* exactly once, whatever the order of nested retrievals and child events.
C38_CompletedTraceReleased ==
    \A trace \in {TraceOf(olog[i]) : i \in DOMAIN olog} :
        ( /\ RetrievalsOf(trace) # {}
          /\ \A i \in RetrievalsOf(trace) :
                \E j \in EndsOf(olog[i].id) : j > i ) =>
            /\ trace \notin DOMAIN traces
            /\ \A id \in DOMAIN spans : spans[id].TraceID # trace
            /\ \A i \in DOMAIN olog :
                  (olog[i].op # "OnRetrieveEnd" /\ TraceOf(olog[i]) = trace) =>
                      \A e \in DOMAIN exporters :
                          TimesExported(olog[i].id, exporters[e]) = 1

=============================================================================
